---- MODULE Spec2Model ----
(***************************************************************************)
(* Modular fibre-panel cable routing of the NetBox custom scripts:         *)
(* CableRunner in scripts/jumpers.py (the deployed copy) and in            *)
(* scripts/common/utils.py (the earlier copy), driven by NewJumper.run.    *)
(*                                                                         *)
(* The inventory (devices, rear ports, front ports) is a fixed catalogue;  *)
(* the cables of the inventory are the state.  Ports are numbered:         *)
(*   front ports 1..7, rear ports 11..15, interfaces 21..24.               *)
(*                                                                         *)
(* Specifications:                                                         *)
(*   Spec        one CableRunner run over every backbone of the bounds     *)
(*   SpecJumper  NewJumper.run of two operators, interleaved               *)
(*   SpecTrunk   the labels of the modular trunks (next_cable_id)          *)
(*   SpecTags    the interface tag generator of scripts/misc.py            *)
(*   SpecASN     AssignASN of scripts/ipam.py, run after run               *)
(*   SpecCobber  CobberFreeForm of scripts/operations.py                   *)
(***************************************************************************)
EXTENDS Integers, Sequences, FiniteSets, TLC

\* ------------------------------------------------------------------ bounds
\* Largest number of front ports that carry a jumper before the first run.
MaxPreCabled == 4

\* ------------------------------------------------------------ the inventory
PANEL_ROLE == "modular-panels"

Racks == {1, 2, 3}

\* device -> rack: panels 1 (rack 1), 2 (rack 2), 3 and 4 (hub rack 3),
\* routers 5, 6, 7 (one per rack).
DeviceRack == <<1, 2, 3, 3, 1, 2, 3>>

DeviceRole == <<PANEL_ROLE, PANEL_ROLE, PANEL_ROLE, PANEL_ROLE, "router", "router", "router">>

\* rear port -> device: A1, A2 on panel 1, B1 on panel 2, H1 on panel 3,
\* G1 on panel 4.
RearPorts == 11..15

RearPortDevice == (11 :> 1) @@ (12 :> 1) @@ (13 :> 2) @@ (14 :> 3) @@ (15 :> 4)

\* front ports, in the enumeration order of FrontPort.objects.filter().
FrontPort ==
  << [device |-> 1, rear_port |-> 11, rear_port_position |-> 1, type |-> "lc"],
     [device |-> 1, rear_port |-> 11, rear_port_position |-> 2, type |-> "lc"],
     [device |-> 1, rear_port |-> 12, rear_port_position |-> 1, type |-> "lc"],
     [device |-> 2, rear_port |-> 13, rear_port_position |-> 1, type |-> "lc"],
     [device |-> 2, rear_port |-> 13, rear_port_position |-> 2, type |-> "sc"],
     [device |-> 3, rear_port |-> 14, rear_port_position |-> 1, type |-> "lc"],
     [device |-> 4, rear_port |-> 15, rear_port_position |-> 1, type |-> "lc"] >>

FrontPorts == DOMAIN FrontPort

\* interface -> device: one router interface per rack, and a second
\* interface on the router of rack 1.
Interfaces == 21..24

InterfaceDevice == (21 :> 5) @@ (22 :> 6) @@ (23 :> 7) @@ (24 :> 5)

\* Ports: TypeAlias = FrontPort | Interface | RearPort
Ports == FrontPorts \cup RearPorts \cup Interfaces

\* far end of a jumper that leaves the modelled racks
Ext == 0

\* port.device
PortDevice(p) ==
  IF p \in FrontPorts THEN FrontPort[p].device
  ELSE IF p \in RearPorts THEN RearPortDevice[p]
  ELSE InterfaceDevice[p]

\* port.device.rack
PortRack(p) == DeviceRack[PortDevice(p)]

\* the two copies of CableRunner
Versions == {"jumpers", "utils"}

\* CableTypeChoices used for the cables of the model
SMF_TYPES == {"smf", "smf-os2"}

\* "smf" in cable.type
IsSMF(t) == t \in SMF_TYPES

\* ------------------------------------------------------------------- state
VARIABLES
  ver,          \* which copy of CableRunner the run uses
  cables,       \* Cable.objects: set of [a, b, label, type, status]
  pc,           \* position of NewJumper.run
  rack_1_port,  \* CableRunner.rack_1_port
  rack_2_port,  \* CableRunner.rack_2_port
  connections,  \* CableRunner.connections
  err,          \* the exception that ended the run ("none" if none)
  queried,      \* front ports whose remote side the validation looked up
  snapshot,     \* Cable.objects as get_connections read it
  created,      \* the cables list built by create_cables
  runs,         \* the NewJumper jobs of two operators: job -> its position and locals
  trunks,       \* the modular trunk cables, in creation order: [label, tagged]
  tagrun,       \* the InterfaceTag job: its form data and what it returned
  asnrun,       \* the AssignASN jobs: the ASN objects, their sites, the last run
  cobber        \* the CobberFreeForm job: the cable path and what it logged

vars == <<ver, cables, pc, rack_1_port, rack_2_port, connections, err, queried, snapshot, created,
          runs, trunks, tagrun, asnrun, cobber>>

\* the state of the single CableRunner run
runner_vars == <<pc, rack_1_port, rack_2_port, connections, err, queried, snapshot, created>>

\* the state of the scripts that a CableRunner run does not touch
other_scripts == <<runs, trunks, tagrun, asnrun, cobber>>

\* ------------------------------------------------------- repository queries
\* port.cable (the empty set when the port is uncabled)
CablesOf(p, cs) == {c \in cs : c.a = p \/ c.b = p}

IsFree(p, cs) == CablesOf(p, cs) = {}

\* port.link_peers: the terminations on the other end of the port's cable
link_peers(p, cs) ==
  IF IsFree(p, cs) THEN <<>>
  ELSE LET c == CHOOSE c \in CablesOf(p, cs) : TRUE
       IN <<IF c.a = p THEN c.b ELSE c.a>>

\* the ascending sequence of the members of a set of ports
RECURSIVE SortedSeq(_)
SortedSeq(S) ==
  IF S = {} THEN <<>>
  ELSE LET m == CHOOSE x \in S : \A y \in S : x <= y
       IN <<m>> \o SortedSeq(S \ {m})

\* CableRunner._find_free_local_ports, one rack, jumpers.py: panel role,
\* rack, LC type, no cable.
J_free_modular_ports(rack, cs) ==
  SortedSeq({f \in FrontPorts :
               /\ DeviceRole[FrontPort[f].device] = PANEL_ROLE
               /\ DeviceRack[FrontPort[f].device] = rack
               /\ FrontPort[f].type = "lc"
               /\ IsFree(f, cs)})

\* CableRunner._find_free_local_ports, one rack, common/utils.py: no type
\* filter.
U_free_modular_ports(rack, cs) ==
  SortedSeq({f \in FrontPorts :
               /\ DeviceRole[FrontPort[f].device] = PANEL_ROLE
               /\ DeviceRack[FrontPort[f].device] = rack
               /\ IsFree(f, cs)})

free_modular_ports(v, rack, cs) ==
  IF v = "jumpers" THEN J_free_modular_ports(rack, cs) ELSE U_free_modular_ports(rack, cs)

\* the check that ends _find_free_local_ports: TRUE when it raises.
\* jumpers.py tests both lists, common/utils.py tests the first list twice
\* (M_J_no_free_ports: a check that forgets the first list).
M_J_no_free_ports(free1, free2) == free2 = <<>>

J_no_free_ports(free1, free2) == free1 = <<>> \/ free2 = <<>>

U_no_free_ports(free1, free2) == free1 = <<>> \/ free1 = <<>>

no_free_ports(v, free1, free2) ==
  IF v = "jumpers" THEN J_no_free_ports(free1, free2) ELSE U_no_free_ports(free1, free2)

\* FrontPort.objects.get(...): the outcome for a set of matching rows
GetOne(matches) ==
  IF matches = {} THEN [kind |-> "fatal", err |-> "DoesNotExist", remote |-> Ext]
  ELSE IF Cardinality(matches) > 1
    THEN [kind |-> "fatal", err |-> "MultipleObjectsReturned", remote |-> Ext]
  ELSE [kind |-> "found", err |-> "none", remote |-> CHOOSE f \in matches : TRUE]

Skip == [kind |-> "skip", err |-> "none", remote |-> Ext]

\* body of the loop of validate_free_ports, jumpers.py
J_remote_front_port(port, cs) ==
  LET peers == link_peers(FrontPort[port].rear_port, cs)
  IN IF peers = <<>> THEN Skip                       \* IndexError, caught
     ELSE LET remote_port == peers[1]
              remote_panel == PortDevice(remote_port)
              trunk == CHOOSE c \in CablesOf(remote_port, cs) : TRUE
          IN IF ~IsSMF(trunk.type) THEN Skip          \* ValueError, caught
             ELSE GetOne({f \in FrontPorts :
                            /\ FrontPort[f].device = remote_panel
                            /\ FrontPort[f].rear_port_position = FrontPort[port].rear_port_position
                            /\ FrontPort[f].rear_port = remote_port})

\* body of the loop of _validate_free_ports, common/utils.py
U_remote_front_port(port, cs) ==
  LET peers == link_peers(FrontPort[port].rear_port, cs)
  IN IF peers = <<>>
       THEN [kind |-> "fatal", err |-> "IndexError", remote |-> Ext]  \* not caught
     ELSE LET remote_panel == PortDevice(peers[1])
          IN GetOne({f \in FrontPorts :
                       /\ FrontPort[f].device = remote_panel
                       /\ FrontPort[f].rear_port_position = FrontPort[port].rear_port_position})

remote_front_port(v, port, cs) ==
  IF v = "jumpers" THEN J_remote_front_port(port, cs) ELSE U_remote_front_port(port, cs)

\* a validation that forgets to test the remote front port's cable
M_remote_is_free(r, cs) == r.kind = "found"

\* "if not remote_front_port.cable": the resolved remote port carries no cable
remote_is_free(r, cs) == r.kind = "found" /\ IsFree(r.remote, cs)

\* validate_free_ports / _validate_free_ports: the loop over the free ports
\* and the final test.  valid is the list of [LOCALPORT, REMOTEPORT].
RECURSIVE validate_loop(_, _, _, _, _, _)
validate_loop(v, ports, i, valid, seen, cs) ==
  IF i > Len(ports)
    THEN [err |-> IF valid = <<>> THEN "NoValidPorts" ELSE "none",
          valid |-> valid, queried |-> seen]
  ELSE LET port == ports[i]
           r == remote_front_port(v, port, cs)
           q == Append(seen, port)
       IN IF r.kind = "fatal" THEN [err |-> r.err, valid |-> <<>>, queried |-> q]
          ELSE IF remote_is_free(r, cs)
            THEN validate_loop(v, ports, i + 1, Append(valid, <<port, r.remote>>), q, cs)
          ELSE validate_loop(v, ports, i + 1, valid, q, cs)

validate_free_ports(v, ports, cs) == validate_loop(v, ports, 1, <<>>, <<>>, cs)

\* a filter that answers with the first valid pair as soon as some pair is
\* direct
M_filter_ports_direct_connect(pairs, rack_2) ==
  IF SelectSeq(pairs, LAMBDA p : PortRack(p[2]) = rack_2) # <<>> THEN pairs[1] ELSE <<>>

\* get_connections.filter_ports_direct_connect: the first pair whose remote
\* port is in rack_2, or <<>> for None
filter_ports_direct_connect(pairs, rack_2) ==
  LET direct_connect_ports == SelectSeq(pairs, LAMBDA p : PortRack(p[2]) = rack_2)
  IN IF direct_connect_ports # <<>> THEN direct_connect_ports[1] ELSE <<>>

\* a direct plan whose last pair is written the other way round
M_direct_connections(o, d, direct_ports) ==
  << <<o, direct_ports[1]>>, <<direct_ports[2], d>> >>

\* get_connections, SPK-SPK or SPK-HUB: the connections of the direct plan
direct_connections(o, d, direct_ports) ==
  << <<o, direct_ports[1]>>, <<d, direct_ports[2]>> >>

\* get_connections, SPK-HUB-SPK: the connections of the hub-mediated plan
hub_connections(o, d, rack_1_panel_ports, rack_2_panel_ports) ==
  << <<o, rack_1_panel_ports[1]>>,
     <<rack_1_panel_ports[2], rack_2_panel_ports[2]>>,
     <<d, rack_2_panel_ports[1]>> >>

\* CableRunner.get_connections: the plan, or the exception that ends it
get_connections(v, o, d, cs) ==
  LET rack_1 == PortRack(o)
      rack_2 == PortRack(d)
      free1 == free_modular_ports(v, rack_1, cs)
      free2 == free_modular_ports(v, rack_2, cs)
  IN IF no_free_ports(v, free1, free2)
       THEN [err |-> "NoFreePorts", connections |-> <<>>, queried |-> <<>>]
     ELSE LET v1 == validate_free_ports(v, free1, cs)
          IN IF v1.err # "none"
               THEN [err |-> v1.err, connections |-> <<>>, queried |-> v1.queried]
             ELSE LET direct_ports == filter_ports_direct_connect(v1.valid, rack_2)
                  IN IF direct_ports # <<>>
                       THEN [err |-> "none",
                             connections |-> direct_connections(o, d, direct_ports),
                             queried |-> v1.queried]
                     ELSE LET v2 == validate_free_ports(v, free2, cs)
                          IN IF v2.err # "none"
                               THEN [err |-> v2.err, connections |-> <<>>,
                                     queried |-> v1.queried \o v2.queried]
                             ELSE [err |-> "none",
                                   connections |-> hub_connections(o, d, v1.valid[1], v2.valid[1]),
                                   queried |-> v1.queried \o v2.queried]

\* ------------------------------------------------------------ initial state
\* no NewJumper job has been submitted
Jobs == {1, 2}

IdleRun ==
  [pc |-> "idle", a_sel |-> <<>>, z_sel |-> <<>>, clr |-> "", status |-> "",
   rack_1_port |-> Ext, rack_2_port |-> Ext,
   connections |-> <<>>, created |-> <<>>, logged |-> <<>>, err |-> "none"]

NoRuns == [j \in Jobs |-> IdleRun]

\* no InterfaceTag form has been filled in
NoTagRun == [pc |-> "none"]

\* no AssignASN job and no CobberFreeForm job
NoAsnRun == [pc |-> "none"]

NoCobber == [pc |-> "none"]

\* a backbone trunk between two rear ports
Trunk(a, b, t) == [a |-> a, b |-> b, label |-> "COM", type |-> t, status |-> "connected"]

\* a jumper from a front port to equipment outside the modelled racks
PreCabled(f) == [a |-> f, b |-> Ext, label |-> "PRE", type |-> "smf", status |-> "connected"]

TrunkChoices ==
  {Trunk(a, b, t) : a \in RearPorts, b \in RearPorts, t \in {"smf-os2", "mmf-om4"}}

\* sets of trunks in which a rear port carries at most one cable (five rear
\* ports take at most two trunks)
TrunkSets ==
  LET E == {c \in TrunkChoices : c.a < c.b}
      P == {p \in E \X E : {p[1].a, p[1].b} \cap {p[2].a, p[2].b} = {}}
  IN {{}} \cup {{c} : c \in E} \cup {{p[1], p[2]} : p \in P}

\* the ports selected on the NewJumper form: an uncabled interface (one per
\* rack) or front port
Endpoints == (21..23) \cup FrontPorts

Init ==
  /\ ver \in Versions
  /\ \E T \in TrunkSets, O \in SUBSET FrontPorts :
       /\ Cardinality(O) <= MaxPreCabled
       /\ cables = T \cup {PreCabled(f) : f \in O}
  /\ pc = "idle"
  /\ rack_1_port = Ext
  /\ rack_2_port = Ext
  /\ connections = <<>>
  /\ err = "none"
  /\ queried = <<>>
  /\ snapshot = {}
  /\ created = <<>>
  /\ runs = NoRuns
  /\ trunks = <<>>
  /\ tagrun = NoTagRun
  /\ asnrun = NoAsnRun
  /\ cobber = NoCobber

\* ----------------------------------------------------------------- actions
\* a cable whose terminations are written the other way round
M_create_cable_single(port_1, port_2, clr, status, cable_type) ==
  [a |-> port_2, b |-> port_1, label |-> clr, type |-> cable_type, status |-> status]

\* CableRunner.create_cable_single: the cable it builds
create_cable_single(port_1, port_2, clr, status, cable_type) ==
  [a |-> port_1, b |-> port_2, label |-> clr, type |-> cable_type, status |-> status]

\* the default cable_type of the copy: TYPE_SMF in jumpers.py, TYPE_SMF_OS2 in
\* common/utils.py
default_cable_type(v) == IF v = "jumpers" THEN "smf" ELSE "smf-os2"

\* the cable of a run whose form carries the default CLR and status
NewCable(a, b, v) == create_cable_single(a, b, "CLR", "connected", default_cable_type(v))

\* a wrap_save that saves whatever it is given
M_CanSave(c, cs) == TRUE

\* wrap_save: full_clean rejects a termination that already carries a cable
CanSave(c, cs) == IsFree(c.a, cs) /\ IsFree(c.b, cs)

\* a resolver that reserves the origin-side panel port of its plan by writing
\* a placeholder cable on it
M_RunInterRack(a_port, z_port) ==
  /\ pc = "idle"
  /\ a_port # z_port
  /\ IsFree(a_port, cables) /\ IsFree(z_port, cables)
  /\ PortRack(a_port) # PortRack(z_port)
  /\ LET r == get_connections(ver, a_port, z_port, cables)
     IN /\ err' = r.err
        /\ connections' = r.connections
        /\ queried' = r.queried
        /\ pc' = IF r.err = "none" THEN "create" ELSE "aborted"
        /\ cables' = IF r.err = "none"
                       THEN cables \cup {PreCabled(r.connections[1][2])}
                       ELSE cables
  /\ rack_1_port' = a_port
  /\ rack_2_port' = z_port
  /\ snapshot' = cables
  /\ UNCHANGED <<ver, created>>
  /\ UNCHANGED other_scripts

\* NewJumper.run, inter-rack branch up to runner.get_connections()
RunInterRack(a_port, z_port) ==
  /\ pc = "idle"
  /\ a_port # z_port
  /\ IsFree(a_port, cables) /\ IsFree(z_port, cables)
  /\ PortRack(a_port) # PortRack(z_port)
  /\ LET r == get_connections(ver, a_port, z_port, cables)
     IN /\ err' = r.err
        /\ connections' = r.connections
        /\ queried' = r.queried
        /\ pc' = IF r.err = "none" THEN "create" ELSE "aborted"
  /\ rack_1_port' = a_port
  /\ rack_2_port' = z_port
  /\ snapshot' = cables
  /\ UNCHANGED <<ver, cables, created>>
  /\ UNCHANGED other_scripts

\* NewJumper.run, intra-rack branch: one cable between the selected ports
RunIntraRack(a_port, z_port) ==
  /\ pc = "idle"
  /\ a_port # z_port
  /\ IsFree(a_port, cables) /\ IsFree(z_port, cables)
  /\ PortRack(a_port) = PortRack(z_port)
  /\ cables' = cables \cup {NewCable(a_port, z_port, ver)}
  /\ created' = <<NewCable(a_port, z_port, ver)>>
  /\ pc' = "done"
  /\ rack_1_port' = a_port
  /\ rack_2_port' = z_port
  /\ snapshot' = cables
  /\ UNCHANGED <<ver, connections, err, queried>>
  /\ UNCHANGED other_scripts

\* CableRunner.create_cables: one turn of the loop
CreateCable ==
  /\ pc = "create"
  /\ Len(created) < Len(connections)
  /\ LET connection == connections[Len(created) + 1]
         c == NewCable(connection[1], connection[2], ver)
     IN IF CanSave(c, cables)
          THEN /\ cables' = cables \cup {c}
               /\ created' = Append(created, c)
               /\ pc' = IF Len(created) + 1 = Len(connections) THEN "done" ELSE "create"
               /\ err' = err
          ELSE /\ err' = "ValidationError"
               /\ pc' = "aborted"
               /\ UNCHANGED <<cables, created>>
  /\ UNCHANGED <<ver, rack_1_port, rack_2_port, connections, queried, snapshot>>
  /\ UNCHANGED other_scripts

Next ==
  \/ \E a_port \in Endpoints, z_port \in Endpoints : RunInterRack(a_port, z_port)
  \/ \E a_port \in Endpoints, z_port \in Endpoints : RunIntraRack(a_port, z_port)
  \/ CreateCable

Spec == Init /\ [][Next]_vars

\* ------------------------------------------- NewJumper.run of two operators
\* the CLR and the status typed into the form
FormData ==
  {[clr |-> "CLR-1001", status |-> "connected"], [clr |-> "CLR-1002", status |-> "planned"]}

\* what one side of the form carries in <<interface, frontport, rearport>>
\* (Ext for a field left empty): one port, no port, or more than one
FormSelections ==
  {<<i, Ext, Ext>> : i \in Interfaces} \cup {<<Ext, f, Ext>> : f \in {3, 7}}
    \cup {<<Ext, Ext, Ext>>, <<Ext, 1, 11>>, <<21, 1, 11>>}

\* the backbone the jobs start from: no trunk, one trunk rack 1 - rack 2,
\* trunks from rack 1 and rack 2 to the hub rack, a trunk inside the hub rack
JumperLayouts ==
  { {},
    {Trunk(11, 13, "smf-os2")},
    {Trunk(12, 14, "smf-os2"), Trunk(13, 15, "smf-os2")},
    {Trunk(11, 13, "smf-os2"), Trunk(14, 15, "smf-os2")} }

\* msg.format(side) of check_pairs
select_one_msg(side) == IF side = "A" THEN "Select one of A" ELSE "Select one of Z"

\* NewJumper.run.check_pairs: the selected port, or the exception raised
check_pairs(port_1, port_2, port_3, side) ==
  LET ports_input == SelectSeq(<<port_1, port_2, port_3>>, LAMBDA i : i # Ext)
  IN IF Len(ports_input) > 1 THEN [err |-> select_one_msg(side), port |-> Ext]
     ELSE IF ports_input = <<>> THEN [err |-> "IndexError", port |-> Ext]  \* ports_input[0]
     ELSE [err |-> "none", port |-> ports_input[1]]

\* NewJumper.run.check_port_selections: the A side is checked first
check_port_selections(a_sel, z_sel) ==
  LET a == check_pairs(a_sel[1], a_sel[2], a_sel[3], "A")
      z == check_pairs(z_sel[1], z_sel[2], z_sel[3], "Z")
  IN IF a.err # "none" THEN [err |-> a.err, a_port |-> Ext, z_port |-> Ext]
     ELSE IF z.err # "none" THEN [err |-> z.err, a_port |-> Ext, z_port |-> Ext]
     ELSE [err |-> "none", a_port |-> a.port, z_port |-> z.port]

\* CableRunner.create_cable_log: the fields of the summary
create_cable_log(cable) ==
  [a_rack |-> PortRack(cable.a), a_device |-> PortDevice(cable.a), a_port |-> cable.a,
   label |-> cable.label,
   z_rack |-> PortRack(cable.b), z_device |-> PortDevice(cable.b), z_port |-> cable.b]

\* a test that compares the devices in place of their racks
M_same_rack(a_port, z_port) == PortDevice(a_port) = PortDevice(z_port)

\* data["a_device"].rack == data["z_device"].rack, the devices being those
\* of the selected ports
same_rack(a_port, z_port) == PortRack(a_port) = PortRack(z_port)

\* the job's record once the form is read
Submitted(j, a_sel, z_sel, d, sel) ==
  [runs[j] EXCEPT !.a_sel = a_sel, !.z_sel = z_sel, !.clr = d.clr, !.status = d.status,
                  !.rack_1_port = sel.a_port, !.rack_2_port = sel.z_port]

InitJumper ==
  /\ ver = "jumpers"
  /\ cables \in JumperLayouts
  /\ pc = "idle"
  /\ rack_1_port = Ext
  /\ rack_2_port = Ext
  /\ connections = <<>>
  /\ err = "none"
  /\ queried = <<>>
  /\ snapshot = {}
  /\ created = <<>>
  /\ runs = NoRuns
  /\ trunks = <<>>
  /\ tagrun = NoTagRun
  /\ asnrun = NoAsnRun
  /\ cobber = NoCobber

\* NewJumper.run: check_port_selections raises
NJ_Reject(j, a_sel, z_sel, d) ==
  /\ runs[j].pc = "idle"
  /\ LET sel == check_port_selections(a_sel, z_sel)
     IN /\ sel.err # "none"
        /\ runs' = [runs EXCEPT ![j] = [Submitted(j, a_sel, z_sel, d, sel)
                                          EXCEPT !.pc = "aborted", !.err = sel.err]]
  /\ UNCHANGED <<ver, cables, runner_vars, trunks, tagrun, asnrun, cobber>>

\* an intra-rack branch that removes the cable found on a selected port
\* before it saves its own
M_NJ_IntraRack(j, a_sel, z_sel, d) ==
  /\ runs[j].pc = "idle"
  /\ LET sel == check_port_selections(a_sel, z_sel)
     IN /\ sel.err = "none"
        /\ sel.a_port # sel.z_port
        /\ same_rack(sel.a_port, sel.z_port)
        /\ LET c == create_cable_single(sel.a_port, sel.z_port, d.clr, d.status,
                                        default_cable_type(ver))
               run == Submitted(j, a_sel, z_sel, d, sel)
           IN /\ cables' = ((cables \ CablesOf(sel.a_port, cables)) \ CablesOf(sel.z_port, cables))
                              \cup {c}
              /\ runs' = [runs EXCEPT ![j] = [run EXCEPT !.pc = "done",
                                                         !.created = <<c>>,
                                                         !.logged = <<create_cable_log(c)>>]]
  /\ UNCHANGED <<ver, runner_vars, trunks, tagrun, asnrun, cobber>>

\* NewJumper.run, intra-rack branch: one cable between the selected ports,
\* then its summary is logged
NJ_IntraRack(j, a_sel, z_sel, d) ==
  /\ runs[j].pc = "idle"
  /\ LET sel == check_port_selections(a_sel, z_sel)
     IN /\ sel.err = "none"
        /\ sel.a_port # sel.z_port
        /\ same_rack(sel.a_port, sel.z_port)
        /\ LET c == create_cable_single(sel.a_port, sel.z_port, d.clr, d.status,
                                        default_cable_type(ver))
               run == Submitted(j, a_sel, z_sel, d, sel)
           IN IF CanSave(c, cables)
                THEN /\ cables' = cables \cup {c}
                     /\ runs' = [runs EXCEPT ![j] = [run EXCEPT !.pc = "done",
                                                                !.created = <<c>>,
                                                                !.logged = <<create_cable_log(c)>>]]
                ELSE /\ cables' = cables
                     /\ runs' = [runs EXCEPT ![j] = [run EXCEPT !.pc = "aborted",
                                                                !.err = "ValidationError"]]
  /\ UNCHANGED <<ver, runner_vars, trunks, tagrun, asnrun, cobber>>

\* a resolver that holds the panel ports of the plans in flight as taken
M_NJ_Resolve(j, a_sel, z_sel, d) ==
  /\ runs[j].pc = "idle"
  /\ LET sel == check_port_selections(a_sel, z_sel)
     IN /\ sel.err = "none"
        /\ sel.a_port # sel.z_port
        /\ ~same_rack(sel.a_port, sel.z_port)
        /\ LET held == {PreCabled(runs[k].connections[i][2]) :
                          k \in {k \in Jobs : runs[k].pc = "create"}, i \in {1}}
               r == get_connections(ver, sel.a_port, sel.z_port, cables \cup held)
               run == Submitted(j, a_sel, z_sel, d, sel)
           IN runs' = [runs EXCEPT ![j] = [run EXCEPT !.pc = IF r.err = "none" THEN "create"
                                                              ELSE "aborted",
                                                      !.connections = r.connections,
                                                      !.err = r.err]]
  /\ UNCHANGED <<ver, cables, runner_vars, trunks, tagrun, asnrun, cobber>>

\* NewJumper.run, inter-rack branch up to runner.get_connections()
NJ_Resolve(j, a_sel, z_sel, d) ==
  /\ runs[j].pc = "idle"
  /\ LET sel == check_port_selections(a_sel, z_sel)
     IN /\ sel.err = "none"
        /\ sel.a_port # sel.z_port
        /\ ~same_rack(sel.a_port, sel.z_port)
        /\ LET r == get_connections(ver, sel.a_port, sel.z_port, cables)
               run == Submitted(j, a_sel, z_sel, d, sel)
           IN runs' = [runs EXCEPT ![j] = [run EXCEPT !.pc = IF r.err = "none" THEN "create"
                                                              ELSE "aborted",
                                                      !.connections = r.connections,
                                                      !.err = r.err]]
  /\ UNCHANGED <<ver, cables, runner_vars, trunks, tagrun, asnrun, cobber>>

\* the summaries NewJumper.run logs once create_cables has returned
log_cables(cs) == [i \in DOMAIN cs |-> create_cable_log(cs[i])]

\* a create_cables that deletes the cables it made when a save fails
M_create_failed(run, cs) == cs \ {run.created[i] : i \in DOMAIN run.created}

\* create_cables when wrap_save raises: the exception leaves the loop, the
\* repository stays as it is
create_failed(run, cs) == cs

\* CableRunner.create_cables, one turn of the loop; after the last turn
\* NewJumper.run logs the cables
NJ_CreateCable(j) ==
  /\ runs[j].pc = "create"
  /\ Len(runs[j].created) < Len(runs[j].connections)
  /\ LET run == runs[j]
         connection == run.connections[Len(run.created) + 1]
         c == create_cable_single(connection[1], connection[2], run.clr, run.status,
                                  default_cable_type(ver))
         made == Append(run.created, c)
     IN IF CanSave(c, cables)
          THEN /\ cables' = cables \cup {c}
               /\ runs' = [runs EXCEPT ![j] =
                             IF Len(made) = Len(run.connections)
                               THEN [run EXCEPT !.created = made, !.pc = "done",
                                                !.logged = log_cables(made)]
                               ELSE [run EXCEPT !.created = made]]
          ELSE /\ cables' = create_failed(run, cables)
               /\ runs' = [runs EXCEPT ![j] = [run EXCEPT !.pc = "aborted",
                                                          !.err = "ValidationError"]]
  /\ UNCHANGED <<ver, runner_vars, trunks, tagrun, asnrun, cobber>>

NextJumper ==
  \/ \E j \in Jobs, a_sel \in FormSelections, z_sel \in FormSelections, d \in FormData :
       NJ_Reject(j, a_sel, z_sel, d)
  \/ \E j \in Jobs, a_sel \in FormSelections, z_sel \in FormSelections, d \in FormData :
       NJ_IntraRack(j, a_sel, z_sel, d)
  \/ \E j \in Jobs, a_sel \in FormSelections, z_sel \in FormSelections, d \in FormData :
       NJ_Resolve(j, a_sel, z_sel, d)
  \/ \E j \in Jobs : NJ_CreateCable(j)

SpecJumper == InitJumper /\ [][NextJumper]_vars

\* --------------------------------------------------- vocabulary of the claims
\* get_connections ran: the run left "idle" through the inter-rack branch
InterRack == pc # "idle" /\ PortRack(rack_1_port) # PortRack(rack_2_port)

Rack1 == PortRack(rack_1_port)

Rack2 == PortRack(rack_2_port)

\* the free modular-panel front ports of a rack in the state the run read
FreeOf(rack) == free_modular_ports(ver, rack, snapshot)

InSeq(x, s) == \E i \in DOMAIN s : s[i] = x

\* the front port mapped to the far end of p's rear-port backbone link at p's
\* position (the empty set when there is no link or no such front port)
BackboneRemote(p) ==
  LET peers == link_peers(FrontPort[p].rear_port, snapshot)
  IN IF peers = <<>> THEN {}
     ELSE {f \in FrontPorts : /\ FrontPort[f].rear_port = peers[1]
                              /\ FrontPort[f].rear_port_position = FrontPort[p].rear_port_position}

\* the outcome of the version's lookup of p's remote front port
Lookup(p) == remote_front_port(ver, p, snapshot)

\* the lookup of p's remote front port is a data-integrity (or other) failure
Fatal(p) == Lookup(p).kind = "fatal"

\* p is the local port of a valid pair of the rack: p is one of the rack's
\* free panel ports, the lookup resolves a remote front port for it and that
\* port carries no cable
ValidLocal(p, rack) ==
  /\ InSeq(p, FreeOf(rack))
  /\ Lookup(p).kind = "found"
  /\ IsFree(Lookup(p).remote, snapshot)

HasValidPair(rack) == \E p \in FrontPorts : ValidLocal(p, rack)

HasDirectPair ==
  \E p \in FrontPorts : ValidLocal(p, Rack1) /\ PortRack(Lookup(p).remote) = Rack2

\* the free-port check passed and the validation of the rack's free ports ran
\* to its end, so the rack's list of valid pairs exists
PairsComputed(rack) ==
  /\ InterRack
  /\ FreeOf(Rack1) # <<>> /\ FreeOf(Rack2) # <<>>
  /\ \A p \in FrontPorts : InSeq(p, FreeOf(rack)) => ~Fatal(p)

\* nothing was planned and nothing was written
NoPlanNoCable == connections = <<>> /\ created = <<>> /\ cables = snapshot

\* the first valid pair of a rack, in the enumeration order of its free ports
FirstValid(rack) ==
  LET p == CHOOSE x \in FrontPorts :
             /\ ValidLocal(x, rack)
             /\ \A y \in FrontPorts : ValidLocal(y, rack) => x <= y
  IN <<p, Lookup(p).remote>>

\* ------------------------------------------------------------------ claims
\* C1: in every version of CableRunner, when the origin rack or the
\* destination rack has no free modular-panel front port, get_connections
\* aborts with the "No free modular panel ports" error, leaves no plan and
\* no cable is created.
C1_NoFreePortsAborts ==
  (InterRack /\ (FreeOf(Rack1) = <<>> \/ FreeOf(Rack2) = <<>>))
    => (err = "NoFreePorts" /\ NoPlanNoCable)

\* C2 as stated: when the valid pairs of the origin rack include a pair whose
\* remote port is in the destination rack, the plan has length 2, its first
\* pair starts with the caller's origin port and its last pair ends with the
\* caller's destination port.
C2_LastElementIsDestination ==
  (PairsComputed(Rack1) /\ HasDirectPair)
    => /\ err # "NoFreePorts" /\ err # "NoValidPorts"
       /\ Len(connections) = 2
       /\ connections[1][1] = rack_1_port
       /\ connections[2][2] = rack_2_port

\* C2 amended: in that case the plan has length 2, its first pair starts
\* with the caller's origin port and its last pair STARTS with the caller's
\* destination port (the last pair is [rack_2_port, p']).
C2_DirectPlanShape ==
  (PairsComputed(Rack1) /\ HasDirectPair)
    => /\ err = "none"
       /\ Len(connections) = 2
       /\ connections[1][1] = rack_1_port
       /\ connections[2][1] = rack_2_port

C2_Witness ==
  /\ PairsComputed(Rack1) /\ HasDirectPair
  /\ pc = "done" /\ Len(created) = 2

\* C3: when no valid pair of the origin rack reaches the destination rack
\* but both racks have a valid pair, the plan is [(origin, p1), (p1', p2'),
\* (dest, p2)] with (p1, p1') and (p2, p2') the first valid pairs of the two
\* racks and p1', p2' the front ports at the far end of the backbone links
\* of p1 and p2.
C3_HubPlanShape ==
  (/\ PairsComputed(Rack1) /\ PairsComputed(Rack2)
   /\ ~HasDirectPair /\ HasValidPair(Rack1) /\ HasValidPair(Rack2))
    => LET one == FirstValid(Rack1)
           two == FirstValid(Rack2)
       IN /\ connections = << <<rack_1_port, one[1]>>, <<one[2], two[2]>>, <<rack_2_port, two[1]>> >>
          /\ one[2] \in BackboneRemote(one[1])
          /\ two[2] \in BackboneRemote(two[1])

\* C4: every plan get_connections returns has length 2 or 3 and no port
\* appears in two consecutive pairs of it.
C4_PlanLengthAndDisjointNeighbours ==
  (InterRack /\ err = "none")
    => /\ Len(connections) \in {2, 3}
       /\ \A i \in 1..(Len(connections) - 1) :
            {connections[i][1], connections[i][2]}
              \cap {connections[i + 1][1], connections[i + 1][2]} = {}

\* the local ports of the direct pairs of the origin rack
DirectLocals ==
  {p \in FrontPorts : ValidLocal(p, Rack1) /\ PortRack(Lookup(p).remote) = Rack2}

\* C5: when a valid pair of the origin rack has its remote port in the
\* destination rack, the plan is the direct one, [(origin, p), (dest, p')],
\* built from the earliest such pair in the enumeration order of the origin
\* rack's free ports, also when valid non-direct pairs precede it.
C5_FirstDirectPairWins ==
  (PairsComputed(Rack1) /\ HasDirectPair)
    => \E p \in DirectLocals :
         /\ \A other \in DirectLocals : p <= other
         /\ connections = << <<rack_1_port, p>>, <<rack_2_port, Lookup(p).remote>> >>

\* a valid pair that does not reach the destination rack comes before the
\* direct pair that the plan uses
C5_Witness ==
  /\ PairsComputed(Rack1) /\ HasDirectPair
  /\ pc = "done" /\ Len(connections) = 2
  /\ \E p \in FrontPorts :
       /\ ValidLocal(p, Rack1)
       /\ PortRack(Lookup(p).remote) # Rack2
       /\ p < connections[1][2]

\* p has no usable remote counterpart: its rear port has no backbone link, or
\* the one front port at the far end of the link is occupied
Unusable(p) ==
  \/ link_peers(FrontPort[p].rear_port, snapshot) = <<>>
  \/ /\ Cardinality(BackboneRemote(p)) = 1
     /\ \A q \in BackboneRemote(p) : ~IsFree(q, snapshot)

AllUnusable(rack) == \A p \in FrontPorts : InSeq(p, FreeOf(rack)) => Unusable(p)

FreeCheckPassed == InterRack /\ FreeOf(Rack1) # <<>> /\ FreeOf(Rack2) # <<>>

\* C6: when a rack whose valid pairs are computed has free panel ports but
\* each of them is on an unconnected rear port or faces an occupied remote
\* front port, the run aborts with "No valid modular ports found" and no
\* cable is created; for the origin rack, and for the destination rack in
\* the hub-mediated fallback.
C6_NoValidPortsAborts ==
  /\ (FreeCheckPassed /\ AllUnusable(Rack1))
       => (err = "NoValidPorts" /\ NoPlanNoCable)
  /\ (PairsComputed(Rack1) /\ HasValidPair(Rack1) /\ ~HasDirectPair /\ AllUnusable(Rack2))
       => (err = "NoValidPorts" /\ NoPlanNoCable)

\* the port looked up after p by the validation that looked up p
NextQueried(p) ==
  {queried[i + 1] : i \in {j \in 1..(Len(queried) - 1) : queried[j] = p}}

\* the free port enumerated after p in p's rack
NextFree(p) ==
  LET free == FreeOf(PortRack(p))
  IN {free[i + 1] : i \in {j \in 1..(Len(free) - 1) : free[j] = p}}

\* C7: in every version, a free front port whose rear port has no backbone
\* link is skipped and the validation goes on to the next free port of the
\* rack; the unconnected rear port raises nothing.
C7_UnconnectedPortSkipped ==
  \A p \in FrontPorts :
    (InterRack /\ InSeq(p, queried) /\ link_peers(FrontPort[p].rear_port, snapshot) = <<>>)
      => /\ err \notin {"IndexError", "ValueError"}
         /\ NextFree(p) \subseteq NextQueried(p)

\* the panel ports of the plan: the second port of the first and of the last
\* pair, and both ports of the middle pair
PanelPortsOfPlan ==
  {connections[i][2] : i \in DOMAIN connections}
    \cup (IF Len(connections) = 3 THEN {connections[2][1]} ELSE {})

\* the local ports of the plan (p, p1, p2)
LocalPortsOfPlan ==
  IF Len(connections) = 3 THEN {connections[1][2], connections[3][2]}
  ELSE IF Len(connections) = 2 THEN {connections[1][2]}
  ELSE {}

\* C8: every panel port of a returned plan carried no cable in the state the
\* resolver read, and no local port of the plan faces an occupied remote
\* front port.
C8_PlanPortsWereFree ==
  (InterRack /\ err = "none")
    => /\ \A p \in PanelPortsOfPlan : p \in FrontPorts /\ IsFree(p, snapshot)
       /\ \A p \in LocalPortsOfPlan : \A q \in BackboneRemote(p) : IsFree(q, snapshot)

\* a plan was returned although a free local port was skipped for its
\* occupied remote front port
C8_Witness ==
  /\ InterRack /\ err = "none" /\ pc = "done"
  /\ \E p \in FrontPorts :
       /\ InSeq(p, queried)
       /\ \E q \in BackboneRemote(p) : ~IsFree(q, snapshot)

\* the rear port at the far end of p's backbone link
RemoteRear(p) == link_peers(FrontPort[p].rear_port, snapshot)[1]

\* p's rear port has a backbone link that the version validates through
Connected(p) ==
  /\ link_peers(FrontPort[p].rear_port, snapshot) # <<>>
  /\ ver = "jumpers" =>
       \A c \in CablesOf(FrontPort[p].rear_port, snapshot) : IsSMF(c.type)

\* the remote panel of p has several rear ports, and exactly one front port is
\* mapped to p's position on the linked one
OneToOneOnSharedPanel(p) ==
  /\ Connected(p)
  /\ Cardinality(BackboneRemote(p)) = 1
  /\ Cardinality({r \in RearPorts : RearPortDevice[r] = RearPortDevice[RemoteRear(p)]}) > 1

\* C9: when the lookup of the remote front port of a connected local port
\* matches no front port or several, the run ends there with that error, no
\* further port is looked up, no plan and no cable result; and on a remote
\* panel with several rear ports that map their front ports 1:1 by position
\* the lookup resolves exactly the one front port of the linked rear port.
C9_LookupExactlyOne ==
  \A p \in FrontPorts :
    (InterRack /\ InSeq(p, queried))
      => /\ (Connected(p) /\ Fatal(p))
              => /\ err \in {"DoesNotExist", "MultipleObjectsReturned"}
                 /\ queried[Len(queried)] = p
                 /\ NoPlanNoCable
         /\ OneToOneOnSharedPanel(p)
              => /\ Lookup(p).kind = "found"
                 /\ Lookup(p).remote \in BackboneRemote(p)

\* C10: when the origin rack has no free panel port, get_connections fails
\* with the "No free modular panel ports" error and no validity lookup was
\* issued for a port of the destination rack.
C10_FailFastOnOriginRack ==
  (InterRack /\ FreeOf(Rack1) = <<>>)
    => /\ err = "NoFreePorts"
       /\ \A i \in DOMAIN queried : PortRack(queried[i]) # Rack2

\* the origin rack has no free panel port while the destination rack has some
C10_Witness ==
  /\ InterRack /\ FreeOf(Rack1) = <<>> /\ FreeOf(Rack2) # <<>>
  /\ pc = "aborted"

\* the resolver returned (a plan or an error) and no cable has been written
\* since
Resolved == InterRack /\ created = <<>> /\ err # "ValidationError"

C11_WitnessError == Resolved /\ pc = "aborted" /\ err = "NoValidPorts"

\* -------------------------------------------- labels of the modular trunks
\* the characters of a cable id, in the order of Python's string comparison
DigitChars == <<"0", "1", "2", "3", "4", "5", "6", "7", "8", "9">>

\* ord(c) for the characters of a cable id
Ord(c) == IF c = "C" THEN 67 ELSE 47 + (CHOOSE d \in DOMAIN DigitChars : DigitChars[d] = c)

\* str(n) for n >= 0
RECURSIVE str(_)
str(n) == IF n < 10 THEN <<DigitChars[n + 1]>> ELSE Append(str(n \div 10), DigitChars[(n % 10) + 1])

\* int(s) for a string of digits
RECURSIVE int(_)
int(s) ==
  IF s = <<>> THEN 0
  ELSE 10 * int(SubSeq(s, 1, Len(s) - 1)) + (Ord(s[Len(s)]) - 48)

\* s.rjust(width, fillchar)
RECURSIVE rjust(_, _, _)
rjust(s, width, fillchar) == IF Len(s) >= width THEN s ELSE rjust(<<fillchar>> \o s, width, fillchar)

\* s < t for two Python strings
RECURSIVE StrLess(_, _)
StrLess(s, t) ==
  IF t = <<>> THEN FALSE
  ELSE IF s = <<>> THEN TRUE
  ELSE IF s[1] # t[1] THEN Ord(s[1]) < Ord(t[1])
  ELSE StrLess(Tail(s), Tail(t))

\* sorted(xs) for a list of strings
RECURSIVE sorted(_)
sorted(xs) ==
  IF xs = <<>> THEN <<>>
  ELSE LET rest == sorted(Tail(xs))
           before == SelectSeq(rest, LAMBDA y : StrLess(y, xs[1]))
           after == SelectSeq(rest, LAMBDA y : ~StrLess(y, xs[1]))
       IN before \o <<xs[1]>> \o after

\* the width the cable id is padded to
CABLE_ID_WIDTH == 4

\* f"COM--{panel_1}--{panel_2}--{cable_id}", as its "--"-separated fields
trunk_label(panel_1, panel_2, cable_id) == <<"COM", panel_1, panel_2, cable_id>>

\* label.split("--")[-1]
last_field(label) == label[Len(label)]

\* Cable.objects.filter(tags=MODULAR_TAG_ID), in creation order
tagged_cables(ts) == SelectSeq(ts, LAMBDA t : t.tagged)

\* a next_cable_id that counts the tagged cables
M_next_cable_id(ts) ==
  <<"C">> \o rjust(str(Len(tagged_cables(ts)) + 1), CABLE_ID_WIDTH, "0")

\* next_cable_id (jumpers.py, devices.py, panels.py, common/utils.py: the
\* same body)
next_cable_id(ts) ==
  LET cables_ == tagged_cables(ts)
      labels == sorted([i \in DOMAIN cables_ |-> last_field(cables_[i].label)])
  IN IF labels = <<>> THEN <<"C", "0", "0", "0", "1">>        \* IndexError
     ELSE LET last_cable_label == labels[Len(labels)]
              last_id == Tail(last_cable_label)
          IN <<"C">> \o rjust(str(int(last_id) + 1), CABLE_ID_WIDTH, "0")

\* the trunk cable a script creates; tagged says whether the script adds the
\* modular-trunk tag after the save
trunk_cable(ts, script, tagged) ==
  [label |-> trunk_label("panel_1", "panel_2", next_cable_id(ts)),
   tagged |-> tagged, by |-> script]

\* create_modular_trunk of jumpers.py: cable.tags.add(MODULAR_TAG)
J_create_modular_trunk(ts) == Append(ts, trunk_cable(ts, "jumpers", TRUE))

\* create_modular_trunk of devices.py: the cable is saved and returned, no
\* tag is added
D_create_modular_trunk(ts) == Append(ts, trunk_cable(ts, "devices", FALSE))

\* PanelsMixins.create_trunk_cable of panels.py: trunk.tags.add(MODULAR_TAG)
P_create_trunk_cable(ts) == Append(ts, trunk_cable(ts, "panels", TRUE))

\* the most trunk cables the repository holds
MaxTrunks == 6

\* the most cassette slots of one CreatePanels form
MaxSlots == 2

\* the numbers of the trunk cables found in the repository at the start
StartIds == {1, 2, 3, 9999}

\* a tagged trunk cable whose label was made for the number n
start_trunk(n) ==
  [label |-> trunk_label("panel_1", "panel_2", <<"C">> \o rjust(str(n), CABLE_ID_WIDTH, "0")),
   tagged |-> TRUE, by |-> "start"]

InitTrunk ==
  /\ \E S \in SUBSET StartIds :
       LET ids == SortedSeq(S) IN trunks = [i \in DOMAIN ids |-> start_trunk(ids[i])]
  /\ ver = "jumpers"
  /\ cables = {}
  /\ pc = "idle"
  /\ rack_1_port = Ext
  /\ rack_2_port = Ext
  /\ connections = <<>>
  /\ err = "none"
  /\ queried = <<>>
  /\ snapshot = {}
  /\ created = <<>>
  /\ runs = NoRuns
  /\ tagrun = NoTagRun
  /\ asnrun = NoAsnRun
  /\ cobber = NoCobber

\* CreatePanelTrunks.run (jumpers.py)
CreatePanelTrunks ==
  /\ Len(trunks) < MaxTrunks
  /\ trunks' = J_create_modular_trunk(trunks)
  /\ UNCHANGED <<ver, cables, runner_vars, runs, tagrun, asnrun, cobber>>

\* the loop over data["slots"] of CreatePanels.run (devices.py), run_cables set
RECURSIVE create_slots(_, _)
create_slots(ts, slots) ==
  IF slots = 0 THEN ts ELSE create_slots(D_create_modular_trunk(ts), slots - 1)

\* CreatePanels.run (devices.py) with run_cables set and `slots` cassette slots
CreatePanels(slots) ==
  /\ Len(trunks) + slots <= MaxTrunks
  /\ trunks' = create_slots(trunks, slots)
  /\ UNCHANGED <<ver, cables, runner_vars, runs, tagrun, asnrun, cobber>>

\* AddCassettes.run (panels.py) with run_jumpers set
AddCassettes ==
  /\ Len(trunks) < MaxTrunks
  /\ trunks' = P_create_trunk_cable(trunks)
  /\ UNCHANGED <<ver, cables, runner_vars, runs, tagrun, asnrun, cobber>>

NextTrunk ==
  \/ CreatePanelTrunks
  \/ \E slots \in 1..MaxSlots : CreatePanels(slots)
  \/ AddCassettes

SpecTrunk == InitTrunk /\ [][NextTrunk]_vars

\* ------------------------------------------------ the interface tag generator
\* a Python str is a sequence of pieces (the literal parts and the values
\* put into an f-string); None is a value of its own
Str(pieces) == [none |-> FALSE, s |-> pieces]

None == [none |-> TRUE, s |-> <<>>]

\* str.lower() on the names of the model
lower(name) ==
  CASE name = "DC" -> "dc"
    [] name = "HPR" -> "hpr"
    [] name = "LAX" -> "lax"
    [] name = "Backbone" -> "backbone"
    [] name = "Customer" -> "customer"
    [] OTHER -> name

\* role.split()[1]
second_word(role) ==
  CASE role = "Backbone Router" -> "Router"
    [] role = "Backbone Switch" -> "Switch"
    [] role = "CPE Router" -> "Router"

\* f"[{net}:<name>]"
tag(net, name) == <<"[", net, ":">> \o name \o <<"]">>

SERVICE_CHOICES == {"Layer 3", "Layer 2", "DMS"}

NETWORK_CHOICES == {"DC", "HPR"}

\* filter_devices: the roles the device field offers
valid_roles == {"Backbone Router", "Backbone Switch", "CPE Router"}

\* no device selected (remote_device), no tenant selected (segment), no unit
\* entered (remote_logical)
NoDevice == "-"

NoTenant == "-"

NoUnit == -1

\* the forms of the InterfaceTag runs of the model
TagForms ==
  [device_role : valid_roles, site : {"LAX"}, tenant : {"Backbone"},
   subinterface : BOOLEAN, handoff : BOOLEAN,
   remote_role : valid_roles \cup {NoDevice}, remote_logical : {NoUnit, 0, 100},
   speed : {"10G"}, clr : {1234}, network : NETWORK_CHOICES, service : SERVICE_CHOICES,
   segment : {NoTenant, "Customer"}]

\* the result of a helper: the pair it returns, or the exception it raises
Returned(port, unit) == [err |-> "none", port |-> port, unit |-> unit]

Raised(e) == [err |-> e, port |-> None, unit |-> None]

\* x + y for two values that are str or None
plus(x, y) == Str(x.s \o y.s)

\* InterfaceTag.run.make_description
make_description(data, site_code) ==
  Str(<<data.speed, " to ">>
      \o (IF data.handoff THEN <<site_code, " Handoff">>
          ELSE <<"remote_device", " ", "remote_interface">>
               \o (IF data.remote_logical # NoUnit /\ data.remote_logical # 0
                     THEN <<".">> \o str(data.remote_logical) ELSE <<>>)
               \o <<" CLR-">> \o str(data.clr)))

\* a make_handoff_tags that leaves every tag on the port tag
M_make_handoff_tags(data, net, site_code, local_tenant) ==
  LET port_tags == Str(tag(net, <<"ext">>))
      edge_tags == Str(tag(net, <<local_tenant>>) \o tag(net, <<"site-", site_code>>))
      dms == Str(tag(net, <<"dms">>) \o tag(net, <<"l2edge">>))
      l3 == Str(tag(net, <<"edge">>))
      l2 == Str(tag(net, <<"l2edge">>))
      svc == CASE data.service = "Layer 3" -> l3
               [] data.service = "Layer 2" -> l2
               [] data.service = "DMS" -> dms
  IN IF data.subinterface THEN Returned(plus(port_tags, plus(svc, edge_tags)), Str(<<>>))
     ELSE Returned(plus(port_tags, plus(svc, edge_tags)), None)

\* InterfaceTag.run.make_handoff_tags
make_handoff_tags(data, net, site_code, local_tenant) ==
  LET port_tags == Str(tag(net, <<"ext">>))
      edge_tags == Str(tag(net, <<local_tenant>>) \o tag(net, <<"site-", site_code>>))
      dms == Str(tag(net, <<"dms">>) \o tag(net, <<"l2edge">>))
      subint == data.subinterface
      l3 == Str(tag(net, <<"edge">>))
      l2 == Str(tag(net, <<"l2edge">>))
  IN CASE data.service = "Layer 3" /\ subint -> Returned(port_tags, plus(l3, edge_tags))
       [] data.service = "Layer 2" /\ subint -> Returned(port_tags, plus(l2, edge_tags))
       [] data.service = "DMS" /\ subint -> Returned(port_tags, plus(dms, edge_tags))
       [] data.service = "Layer 3" /\ ~subint -> Returned(plus(port_tags, plus(l3, edge_tags)), None)
       [] data.service = "Layer 2" /\ ~subint -> Returned(plus(port_tags, plus(l2, edge_tags)), None)
       [] data.service = "DMS" /\ ~subint -> Returned(plus(port_tags, plus(dms, edge_tags)), None)
       [] OTHER -> Raised("Tags not defined for this configuration.")

\* InterfaceTag.run.make_infra_tag; port_tag is None when the caller passes
\* none
make_infra_tag(data, net, port_tag_arg) ==
  LET port_tag == IF port_tag_arg.none THEN Str(tag(net, <<"core">>)) ELSE port_tag_arg
      infra_tag == Str(tag(net, <<"infra">>))
      subint == data.subinterface
  IN CASE data.service = "Layer 3" /\ subint -> Returned(port_tag, infra_tag)
       [] data.service = "Layer 2" /\ subint -> Returned(None, port_tag)
       [] data.service = "Layer 3" /\ ~subint -> Returned(plus(port_tag, infra_tag), None)
       [] data.service = "Layer 2" /\ ~subint -> Returned(port_tag, None)
       [] OTHER -> Raised("Tags not defined for this configuration.")

\* InterfaceTag.run.make_interconnect_tags: the cases in the order of the
\* match statement
make_interconnect_tags(data, net, site_code, local_role, remote_role) ==
  LET cpe == "CPE Router" \in {local_role, remote_role}
      port_tag == Str(tag(net, <<"core">>))
      subject == <<second_word(remote_role), second_word(local_role)>>
  IN CASE subject = <<"Router", "Router">> /\ cpe -> make_infra_tag(data, net, None)
       [] subject = <<"Router", "Switch">> /\ cpe ->
            Returned(Str(tag(net, <<"core">>) \o tag(net, <<"l2acc">>)), None)
       [] subject = <<"Router", "Router">> /\ ~cpe ->
            make_infra_tag(data, net, Str(tag(net, <<"bb-", site_code>>)))
       [] subject = <<"Switch", "Router">> ->
            Returned(plus(port_tag, Str(tag(net, <<"asi">>))), None)
       [] subject = <<"Router", "Switch">> /\ ~cpe ->
            Returned(plus(port_tag, Str(tag(net, <<"l2agg">>))), None)
       [] subject = <<"Switch", "Switch">> /\ ~cpe ->
            Returned(plus(port_tag, Str(tag(net, <<"l2icl">>))), None)
       [] OTHER -> Raised("Tags not defined for this configuration.")

\* InterfaceTag.run.make_tags; str + None raises TypeError
make_tags(data, net, site_code, local_role, remote_role, local_tenant) ==
  LET r == IF data.handoff THEN make_handoff_tags(data, net, site_code, local_tenant)
           ELSE make_interconnect_tags(data, net, site_code, local_role, remote_role)
      description == make_description(data, site_code)
  IN IF r.err # "none" THEN r
     ELSE IF data.subinterface
       THEN IF r.unit.none THEN Raised("TypeError")
            ELSE Returned(r.port, plus(r.unit, plus(Str(<<" ">>), description)))
     ELSE IF r.port.none THEN Raised("TypeError")
     ELSE Returned(plus(r.port, plus(Str(<<" ">>), description)), None)

\* InterfaceTag.run.test_values: the message of the abort, or "none"
test_values(data) ==
  IF data.handoff /\ data.remote_role # NoDevice
    THEN "Cannot select both Handoff and Remote Device."
  ELSE IF ~data.handoff /\ data.remote_role = NoDevice
    THEN "Must select one of Handoff or Remote Device."
  ELSE IF ~data.handoff /\ data.clr = 0
    THEN "Must enter a CLR for a non-Handoff connection."
  ELSE IF data.subinterface /\ data.device_role = "Backbone Switch"
    THEN "Cannot have a logical unit defined for a Switch role local device."
  ELSE "none"

\* InterfaceTag.run: the values handed to make_tags and what run() ends with
interface_tag(data) ==
  LET net == lower(data.network)
      site_code == lower(data.site)
      local_role == data.device_role
      local_tenant == IF data.segment # NoTenant THEN lower(data.segment) ELSE lower(data.tenant)
      remote_role == data.remote_role
  IN IF test_values(data) # "none" THEN Raised(test_values(data))
     ELSE make_tags(data, net, site_code, local_role, remote_role, local_tenant)

\* ---- the reference copy of the generator in tests/test_tags.py
\* test_tags.make_description
T_make_description(data, site_code) ==
  Str(<<data.speed, " to ">>
      \o (IF data.handoff THEN <<site_code, " Handoff">>
          ELSE <<"remote_device", " ", "remote_interface">>
               \o (IF data.remote_logical # NoUnit /\ data.remote_logical # 0
                     THEN <<".">> \o str(data.remote_logical) ELSE <<>>)
               \o <<" CLR-">> \o str(data.clr)))

\* test_tags.make_handoff_tags
T_make_handoff_tags(data, net, site_code, local_tenant) ==
  LET port_tags == Str(tag(net, <<"ext">>))
      edge_tags == Str(tag(net, <<local_tenant>>) \o tag(net, <<"site-", site_code>>))
      dms == Str(tag(net, <<"dms">>) \o tag(net, <<"l2edge">>))
      subint == data.subinterface
      l3 == Str(tag(net, <<"edge">>))
      l2 == Str(tag(net, <<"l2edge">>))
  IN CASE data.service = "Layer 3" /\ subint -> Returned(port_tags, plus(l3, edge_tags))
       [] data.service = "Layer 2" /\ subint -> Returned(port_tags, plus(l2, edge_tags))
       [] data.service = "DMS" /\ subint -> Returned(port_tags, plus(dms, edge_tags))
       [] data.service = "Layer 3" /\ ~subint -> Returned(plus(port_tags, plus(l3, edge_tags)), None)
       [] data.service = "Layer 2" /\ ~subint -> Returned(plus(port_tags, plus(l2, edge_tags)), None)
       [] data.service = "DMS" /\ ~subint -> Returned(plus(port_tags, plus(dms, edge_tags)), None)
       [] OTHER -> Raised("Undefined tags")

\* test_tags.make_infra_tag
T_make_infra_tag(data, net, port_tag_arg) ==
  LET port_tag == IF port_tag_arg.none THEN Str(tag(net, <<"core">>)) ELSE port_tag_arg
      infra_tag == Str(tag(net, <<"infra">>))
      subint == data.subinterface
  IN CASE data.service = "Layer 3" /\ subint -> Returned(port_tag, infra_tag)
       [] data.service = "Layer 2" /\ subint -> Returned(None, port_tag)
       [] data.service = "Layer 3" /\ ~subint -> Returned(plus(port_tag, infra_tag), None)
       [] data.service = "Layer 2" /\ ~subint -> Returned(port_tag, None)
       [] OTHER -> Raised("Undefined tags")

\* test_tags.make_interconnect_tags: the cases in the order of the match
\* statement; its second case is ("Switch", "Router") if cpe
T_make_interconnect_tags(data, net, site_code, local_role, remote_role) ==
  LET cpe == "CPE Router" \in {local_role, remote_role}
      port_tag == Str(tag(net, <<"core">>))
      subject == <<second_word(remote_role), second_word(local_role)>>
  IN CASE subject = <<"Router", "Router">> /\ cpe -> T_make_infra_tag(data, net, None)
       [] subject = <<"Switch", "Router">> /\ cpe ->
            Returned(Str(tag(net, <<"core">>) \o tag(net, <<"l2acc">>)), None)
       [] subject = <<"Router", "Router">> /\ ~cpe ->
            T_make_infra_tag(data, net, Str(tag(net, <<"bb-", site_code>>)))
       [] subject = <<"Switch", "Router">> /\ ~cpe ->
            Returned(plus(port_tag, Str(tag(net, <<"asi">>))), None)
       [] subject = <<"Router", "Switch">> /\ ~cpe ->
            Returned(plus(port_tag, Str(tag(net, <<"l2agg">>))), None)
       [] subject = <<"Switch", "Switch">> /\ ~cpe ->
            Returned(plus(port_tag, Str(tag(net, <<"l2icl">>))), None)
       [] OTHER -> Raised("Undefined tags")

\* test_tags.make_tags; str + None raises TypeError
T_make_tags(data, net, site_code, local_role, remote_role, local_tenant) ==
  LET r == IF data.handoff THEN T_make_handoff_tags(data, net, site_code, local_tenant)
           ELSE T_make_interconnect_tags(data, net, site_code, local_role, remote_role)
      description == T_make_description(data, site_code)
  IN IF r.err # "none" THEN r
     ELSE IF data.subinterface
       THEN IF r.unit.none THEN Raised("TypeError")
            ELSE Returned(r.port, plus(r.unit, plus(Str(<<" ">>), description)))
     ELSE IF r.port.none THEN Raised("TypeError")
     ELSE Returned(plus(r.port, plus(Str(<<" ">>), description)), None)

\* the arguments a test hands to the reference copy for the form data: the
\* values InterfaceTag.run derives from the form
reference_tags(data) ==
  T_make_tags(data, lower(data.network), lower(data.site), data.device_role, data.remote_role,
              IF data.segment # NoTenant THEN lower(data.segment) ELSE lower(data.tenant))

InitTags ==
  /\ \E data \in TagForms : tagrun = [pc |-> "idle", data |-> data, out |-> Raised("none"),
                                         refpc |-> "idle", ref |-> Raised("none")]
  /\ ver = "jumpers"
  /\ cables = {}
  /\ pc = "idle"
  /\ rack_1_port = Ext
  /\ rack_2_port = Ext
  /\ connections = <<>>
  /\ err = "none"
  /\ queried = <<>>
  /\ snapshot = {}
  /\ created = <<>>
  /\ runs = NoRuns
  /\ trunks = <<>>
  /\ asnrun = NoAsnRun
  /\ cobber = NoCobber

\* InterfaceTag.run
RunInterfaceTag ==
  /\ tagrun.pc = "idle"
  /\ LET out == interface_tag(tagrun.data)
     IN tagrun' = [tagrun EXCEPT !.pc = IF out.err = "none" THEN "done" ELSE "aborted",
                                 !.out = out]
  /\ UNCHANGED <<ver, cables, runner_vars, runs, trunks, asnrun, cobber>>

\* a test of tests/test_tags.py: the reference copy is called for the data
\* (for an interconnect the tests always name both roles)
RunReferenceTags ==
  /\ tagrun.pc # "none"
  /\ tagrun.refpc = "idle"
  /\ tagrun.data.handoff \/ tagrun.data.remote_role # NoDevice
  /\ tagrun' = [tagrun EXCEPT !.refpc = "done", !.ref = reference_tags(tagrun.data)]
  /\ UNCHANGED <<ver, cables, runner_vars, runs, trunks, asnrun, cobber>>

NextTags == RunInterfaceTag \/ RunReferenceTags

SpecTags == InitTags /\ [][NextTags]_vars

\* ------------------------------------------ vocabulary of the NewJumper jobs
\* check_port_selections returned the two ports of the job
Accepted(j) == runs[j].rack_1_port # Ext

\* the devices of the job's two ports stand in one rack
JobSameRack(j) ==
  Accepted(j) /\ PortRack(runs[j].rack_1_port) = PortRack(runs[j].rack_2_port)

\* the devices of the job's two ports stand in different racks
JobInterRack(j) ==
  Accepted(j) /\ PortRack(runs[j].rack_1_port) # PortRack(runs[j].rack_2_port)

\* the number of port fields filled in on one side of the form
Selected(sel) == Len(SelectSeq(sel, LAMBDA i : i # Ext))

\* the cables of the repository that join a to b
Joining(a, b) == {c \in cables : c.a = a /\ c.b = b}

\* C12: in an inter-rack job create_cables makes one cable per entry of the
\* plan, in the order of the plan: the i-th cable made has the first port of
\* the i-th pair as its A termination and the second as its Z termination,
\* the repository holds exactly one cable for that pair, every cable of the
\* job carries the job's CLR as label, the job's status and one cable type;
\* when the job ends, one summary per cable made has been logged in that
\* order, and nothing is logged before.
C12_OneCablePerPlanEntry ==
  \A j \in Jobs :
    JobInterRack(j) =>
      LET run == runs[j]
      IN /\ Len(run.created) <= Len(run.connections)
         /\ \A i \in DOMAIN run.created :
              /\ run.created[i].a = run.connections[i][1]
              /\ run.created[i].b = run.connections[i][2]
              /\ run.created[i].label = run.clr
              /\ run.created[i].status = run.status
              /\ run.created[i].type = run.created[1].type
              /\ Joining(run.connections[i][1], run.connections[i][2]) = {run.created[i]}
         /\ run.pc = "done" =>
              /\ Len(run.created) = Len(run.connections)
              /\ Len(run.logged) = Len(run.created)
              /\ \A i \in DOMAIN run.logged :
                   /\ run.logged[i].a_port = run.created[i].a
                   /\ run.logged[i].z_port = run.created[i].b
                   /\ run.logged[i].label = run.created[i].label
         /\ run.pc # "done" => run.logged = <<>>

\* an inter-rack job ended after the three cables of a hub plan
C12_Witness ==
  \E j \in Jobs :
    JobInterRack(j) /\ runs[j].pc = "done" /\ Len(runs[j].created) = 3 /\ runs[j].status = "planned"

\* C13: when the save of a segment of a multi-segment plan fails, the job
\* ends there: the cables it made for the segments before are in the
\* repository and stay in it, fewer cables were made than the plan has
\* segments, and the job takes no further step.
C13_PartialCreationStays ==
  [][\A j \in Jobs :
       (runs'[j].err = "ValidationError" /\ runs'[j].connections # <<>>) =>
         /\ runs'[j].pc = "aborted"
         /\ Len(runs'[j].created) < Len(runs'[j].connections)
         /\ \A i \in DOMAIN runs'[j].created : runs'[j].created[i] \in cables'
         /\ runs[j].err = "ValidationError" => runs'[j] = runs[j]]_vars

\* the save of the second or third segment failed
C13_Witness ==
  \E j \in Jobs :
    /\ runs[j].err = "ValidationError"
    /\ runs[j].created # <<>>
    /\ \A i \in DOMAIN runs[j].created : runs[j].created[i] \in cables

\* both jobs are inter-rack and returned from get_connections before either
\* made a cable
BothResolvedFirst ==
  \A j \in Jobs : JobInterRack(j) /\ runs[j].created = <<>> /\ runs[j].err # "ValidationError"

\* C14: the resolver of a job takes no account of a plan in flight: when both
\* jobs resolved before either made a cable, each holds the plan (or the
\* error) that get_connections gives for its ports on the repository alone.
C14_ResolverIgnoresPlansInFlight ==
  BothResolvedFirst =>
    \A j \in Jobs :
      LET r == get_connections(ver, runs[j].rack_1_port, runs[j].rack_2_port, cables)
      IN runs[j].connections = r.connections /\ runs[j].err = r.err

\* two jobs with different origin ports hold plans that use the same free
\* panel port
C14_Witness ==
  /\ BothResolvedFirst
  /\ runs[1].pc = "create" /\ runs[2].pc = "create"
  /\ runs[1].rack_1_port # runs[2].rack_1_port
  /\ runs[1].connections[1][2] = runs[2].connections[1][2]
  /\ runs[1].connections[1][2] \in FrontPorts
  /\ IsFree(runs[1].connections[1][2], cables)

\* C17: a step of a job leaves every cable of the repository as it is, and
\* a cable it adds is the cable the job has just made: for the next segment
\* of its plan, or between its two selected ports in the intra-rack branch.
C17_CablesOnlyGrow ==
  [][/\ cables \subseteq cables'
     /\ \A c \in cables' \ cables :
          \E j \in Jobs :
            /\ runs'[j].created = Append(runs[j].created, c)
            /\ \/ /\ runs'[j].connections # <<>>
                  /\ <<c.a, c.b>> = runs'[j].connections[Len(runs'[j].created)]
               \/ /\ runs'[j].connections = <<>>
                  /\ <<c.a, c.b>> = <<runs'[j].rack_1_port, runs'[j].rack_2_port>>]_vars

\* both jobs have ended with cables made and the backbone trunks are still
\* in the repository
C17_Witness ==
  /\ \A j \in Jobs : runs[j].pc = "done"
  /\ \E c \in cables : c.label = "COM"
  /\ Cardinality(cables) >= 5

\* C19: a job whose two devices stand in one rack computes no plan and, when
\* it ends, has made exactly one cable, from the selected A port to the
\* selected Z port; a job whose devices stand in different racks ends with
\* two or three cables, each with a modular-panel front port at an end.
C19_IntraRackIsOneDirectCable ==
  \A j \in Jobs :
    LET run == runs[j]
    IN /\ JobSameRack(j) =>
            /\ run.connections = <<>>
            /\ run.pc \in {"done", "aborted"}
            /\ run.pc = "done" =>
                 /\ Len(run.created) = 1
                 /\ run.created[1].a = run.rack_1_port
                 /\ run.created[1].b = run.rack_2_port
                 /\ run.created[1] \in cables
       /\ (JobInterRack(j) /\ run.pc = "done") =>
            /\ Len(run.created) \in {2, 3}
            /\ \A i \in DOMAIN run.created :
                 /\ run.created[i].b \in FrontPorts
                 /\ DeviceRole[PortDevice(run.created[i].b)] = PANEL_ROLE

\* a job joined two router interfaces of one rack
C19_Witness ==
  \E j \in Jobs :
    /\ JobSameRack(j) /\ runs[j].pc = "done"
    /\ runs[j].rack_1_port \in Interfaces /\ runs[j].rack_2_port \in Interfaces

\* C20: a job makes a cable only when exactly one port field is filled in on
\* the A side and exactly one on the Z side; when a side has none or more
\* than one, the job aborts with the "Select one of" message of that side
\* (the A side first) and makes no cable.
C20_SelectExactlyOne ==
  \A j \in Jobs :
    LET run == runs[j]
    IN run.pc # "idle" =>
         /\ run.created # <<>> => (Selected(run.a_sel) = 1 /\ Selected(run.z_sel) = 1)
         /\ Selected(run.a_sel) # 1 =>
              (run.pc = "aborted" /\ run.err = select_one_msg("A") /\ run.created = <<>>)
         /\ (Selected(run.a_sel) = 1 /\ Selected(run.z_sel) # 1) =>
              (run.pc = "aborted" /\ run.err = select_one_msg("Z") /\ run.created = <<>>)

\* C20, the part the code keeps: a cable is made only by a job with exactly
\* one port field filled in on each side, and a job with more than one on a
\* side aborts with the message of that side.
C20_MoreThanOneAborts ==
  \A j \in Jobs :
    LET run == runs[j]
    IN run.pc # "idle" =>
         /\ run.created # <<>> => (Selected(run.a_sel) = 1 /\ Selected(run.z_sel) = 1)
         /\ Selected(run.a_sel) > 1 =>
              (run.pc = "aborted" /\ run.err = select_one_msg("A") /\ run.created = <<>>)
         /\ (Selected(run.a_sel) = 1 /\ Selected(run.z_sel) > 1) =>
              (run.pc = "aborted" /\ run.err = select_one_msg("Z") /\ run.created = <<>>)

\* ------------------------------------------- vocabulary of the trunk labels
\* the cable id of the i-th trunk cable
CableId(i) == last_field(trunks[i].label)

\* the number written in the cable id of the i-th trunk cable
IdNumber(i) == int(Tail(CableId(i)))

\* the tagged trunk cables that existed when the i-th trunk cable was made
TaggedBefore(i) == {k \in 1..(i - 1) : trunks[k].tagged}

\* the i-th trunk cable was made by a script of the model
Made(i) == trunks[i].by # "start"

\* d is the decimal writing of n, padded with zeros to four characters
PaddedTo4(d, n) ==
  /\ int(d) = n
  /\ Len(d) >= 4
  /\ Len(d) > 4 => d[1] # "0"

\* C15: the cable id a script gives a new trunk is C0001 when no tagged
\* trunk cable exists; otherwise it is "C" followed by the number of the
\* tagged cable id that sorts last, plus one, zero-padded to four digits.
\* While every tagged cable id has four digits that number is the largest
\* tagged number, whatever gaps lie below it.
C15_NextCableId ==
  \A i \in DOMAIN trunks :
    Made(i) =>
      /\ CableId(i)[1] = "C"
      /\ TaggedBefore(i) = {} => CableId(i) = <<"C", "0", "0", "0", "1">>
      /\ TaggedBefore(i) # {} =>
           /\ \E m \in TaggedBefore(i) :
                /\ \A k \in TaggedBefore(i) : ~StrLess(CableId(m), CableId(k))
                /\ PaddedTo4(Tail(CableId(i)), IdNumber(m) + 1)
           /\ (\A k \in TaggedBefore(i) : Len(CableId(k)) = 5) =>
                /\ \A k \in TaggedBefore(i) : IdNumber(i) > IdNumber(k)
                /\ \E k \in TaggedBefore(i) : IdNumber(i) = IdNumber(k) + 1

\* with C0001 and C0003 tagged and nothing else, the new trunk got C0004
C15_Witness ==
  /\ Len(trunks) = 3
  /\ Made(3) /\ ~Made(2)
  /\ CableId(1) = <<"C", "0", "0", "0", "1">>
  /\ CableId(2) = <<"C", "0", "0", "0", "3">>
  /\ CableId(3) = <<"C", "0", "0", "0", "4">>

\* C16: every trunk cable a script makes carries a number one greater than
\* the trunk cable made before it, and no two trunk cables carry the same
\* cable id.
C16_TrunkLabelsSequential ==
  \A i \in DOMAIN trunks :
    /\ (Made(i) /\ i > 1) => IdNumber(i) = IdNumber(i - 1) + 1
    /\ \A k \in DOMAIN trunks : k # i => CableId(k) # CableId(i)

\* C16 for the scripts that tag the trunk: while the trunk cables in the
\* repository were all tagged and numbered below 9999, the tagged trunk a
\* script adds is numbered one above the trunk before it and shares its
\* cable id with no other trunk.
C16_TaggedTrunksSequential ==
  \A i \in DOMAIN trunks :
    (Made(i) /\ \A k \in 1..(i - 1) : trunks[k].tagged /\ IdNumber(k) < 9999) =>
      /\ i > 1 => IdNumber(i) = IdNumber(i - 1) + 1
      /\ \A k \in 1..(i - 1) : CableId(k) # CableId(i)

\* ---------------------------------------- vocabulary of the tag generator
\* the run is a handoff that test_values accepted
HandoffRun ==
  /\ tagrun.pc \in {"done", "aborted"}
  /\ tagrun.data.handoff
  /\ tagrun.data.remote_role = NoDevice
  /\ ~(tagrun.data.subinterface /\ tagrun.data.device_role = "Backbone Switch")

\* the network name, the site code and the tenant name as the tags write them
TagNet == lower(tagrun.data.network)

TagSite == lower(tagrun.data.site)

TagTenant ==
  IF tagrun.data.segment # NoTenant THEN lower(tagrun.data.segment) ELSE lower(tagrun.data.tenant)

\* [net:ext]
ExtTag == <<"[", TagNet, ":", "ext", "]">>

\* the tag of the service of the form
ServiceTag ==
  CASE tagrun.data.service = "Layer 3" -> <<"[", TagNet, ":", "edge", "]">>
    [] tagrun.data.service = "Layer 2" -> <<"[", TagNet, ":", "l2edge", "]">>
    [] tagrun.data.service = "DMS" ->
         <<"[", TagNet, ":", "dms", "]", "[", TagNet, ":", "l2edge", "]">>

\* [net:tenant][net:site-code]
EdgeTags == <<"[", TagNet, ":", TagTenant, "]", "[", TagNet, ":", "site-", TagSite, "]">>

\* " " and the description of a handoff
HandoffDescription == <<" ", tagrun.data.speed, " to ", TagSite, " Handoff">>

\* C18: a handoff run that test_values accepted returns; with a subinterface
\* the port tag is exactly [net:ext] and the unit tag is the service tag,
\* [net:tenant][net:site-code], a blank and the description; without one the
\* port tag is [net:ext], the service tag, [net:tenant][net:site-code], a
\* blank and the description, and the unit tag is None.
C18_HandoffTags ==
  HandoffRun =>
    /\ tagrun.pc = "done"
    /\ tagrun.data.subinterface =>
         /\ tagrun.out.port = Str(ExtTag)
         /\ tagrun.out.unit = Str(ServiceTag \o EdgeTags \o HandoffDescription)
    /\ ~tagrun.data.subinterface =>
         /\ tagrun.out.port = Str(ExtTag \o ServiceTag \o EdgeTags \o HandoffDescription)
         /\ tagrun.out.unit = None

\* a DMS handoff with a subinterface returned its tags
C18_Witness ==
  /\ HandoffRun /\ tagrun.pc = "done"
  /\ tagrun.data.service = "DMS" /\ tagrun.data.subinterface
  /\ tagrun.out.port = Str(ExtTag)

\* ------------------------------------------------ the ports of a returned plan
\* get_connections returned a plan
PlanReturned == InterRack /\ err # "ValidationError" /\ connections # <<>>

\* the ports of the plan, segment by segment
PlanPorts == [i \in 1..(2 * Len(connections)) |-> connections[(i + 1) \div 2][2 - (i % 2)]]

\* C26: the ports of a returned plan are pairwise distinct: no segment joins
\* a port to itself and no port is used by two segments.
C26_PlanPortsPairwiseDistinct ==
  PlanReturned =>
    \A i \in DOMAIN PlanPorts : \A k \in DOMAIN PlanPorts : i # k => PlanPorts[i] # PlanPorts[k]

\* C27: every segment of a returned plan joins two ports of one rack: the
\* first one in the origin rack, the last one in the destination rack, and
\* the middle one of a three-segment plan in one (hub) rack.
C27_SegmentsStayInOneRack ==
  PlanReturned =>
    /\ \A i \in DOMAIN connections : PortRack(connections[i][1]) = PortRack(connections[i][2])
    /\ PortRack(connections[1][1]) = Rack1
    /\ PortRack(connections[Len(connections)][1]) = Rack2

\* ------------------------------------------------ cable creation consumes ports
\* every port of a plan, and the panel ports the resolver chose for it (all
\* but the caller's two endpoints)
AllPorts(plan) == {plan[i][1] : i \in DOMAIN plan} \cup {plan[i][2] : i \in DOMAIN plan}

ChosenPorts(plan) ==
  {plan[i][2] : i \in DOMAIN plan} \cup {plan[i][1] : i \in (DOMAIN plan) \ {1, Len(plan)}}

\* job j ran the whole inter-rack workflow
WorkflowComplete(j) == JobInterRack(j) /\ runs[j].pc = "done"

\* job k resolves its plan in this step
Resolves(k) == runs[k].pc = "idle" /\ runs'[k].pc = "create"

\* C25: cable creation consumes ports.  Once an inter-rack workflow is
\* complete every port of its plan carries a cable; a plan resolved after
\* another workflow is complete takes none of that workflow's ports as a panel
\* port; and no front port ever terminates more than one cable.
C25_CreationConsumesPorts ==
  /\ [](\A j \in Jobs : WorkflowComplete(j) =>
          \A p \in AllPorts(runs[j].connections) : ~IsFree(p, cables))
  /\ [](\A f \in FrontPorts : Cardinality(CablesOf(f, cables)) <= 1)
  /\ [][\A k \in Jobs : \A j \in Jobs \ {k} :
          Resolves(k) /\ WorkflowComplete(j) =>
            ChosenPorts(runs'[k].connections) \cap AllPorts(runs[j].connections) = {}]_vars

\* both workflows are complete and the plan of job 2 is not the one the
\* resolver gives on the repository the jobs started from: job 2 resolved
\* after cables of job 1 were saved
C25_Witness ==
  /\ \A j \in Jobs : WorkflowComplete(j)
  /\ LET made == UNION {{runs[j].created[i] : i \in DOMAIN runs[j].created} : j \in Jobs}
     IN get_connections(ver, runs[2].rack_1_port, runs[2].rack_2_port, cables \ made).connections
          # runs[2].connections

\* ------------------------------------------------ the two copies of the generator
\* make_tags of misc.py on the values run() derives from the form
misc_tags(data) ==
  make_tags(data, lower(data.network), lower(data.site), data.device_role, data.remote_role,
            IF data.segment # NoTenant THEN lower(data.segment) ELSE lower(data.tenant))

\* both copies are undefined (AbortScript in misc.py, ValueError in the
\* tests), or both fail on None, or both return the same pair
SameOutcome(r, t) ==
  \/ r.err = "Tags not defined for this configuration." /\ t.err = "Undefined tags"
  \/ r.err = "TypeError" /\ t.err = "TypeError"
  \/ r.err = "none" /\ t.err = "none" /\ r.port = t.port /\ r.unit = t.unit

\* C24: make_tags of misc.py returns the same pair as the reference copy of
\* tests/test_tags.py, or is undefined on the same inputs, for every local
\* role, remote role, service and subinterface flag.
C24_CopiesAgree ==
  tagrun.pc # "none" /\ tagrun.refpc = "done" => SameOutcome(misc_tags(tagrun.data), tagrun.ref)

\* C28: a form that test_values accepts ends with a pair of tags or with the
\* abort 'Tags not defined for this configuration.', never with another error.
C28_ReturnsOrAbortsUndefined ==
  tagrun.pc \in {"done", "aborted"} /\ test_values(tagrun.data) = "none" =>
    tagrun.out.err \in {"none", "Tags not defined for this configuration."}

\* ================================================================ AssignASN
\* scripts/ipam.py.  asnrun = [pc, asns, sites, n, site, new_asn, err, asn,
\* before]: ASN.objects as a function number -> RIR (NoASN where no object
\* has that number), the site assignments as pairs <<number, site>>, the
\* number of runs so far, and the form, the outcome and the database before
\* the last run.

\* Largest number of AssignASN runs in a row.
MaxAsnRuns == 2

PRIVATE_RIR == "RFC-6996"

PUBLIC_RIR == "IANA"

\* a RIR that is neither of the two
OTHER_RIR == "ARIN"

\* first number of the ASNRange "Private ASN"
PRIVATE_ASN_START == 64512

\* range(PRIVATE_ASN_RANGE.start, PRIVATE_ASN_RANGE.end + 1): the model keeps
\* the first two numbers of the range
PRIVATE_ASN_RANGE == PRIVATE_ASN_START..(PRIVATE_ASN_START + 1)

\* the public numbers of the model
PublicNumbers == {100, 200}

Numbers == PublicNumbers \cup PRIVATE_ASN_RANGE

\* no ASN object with that number; the ASN field left blank
NoASN == "-"

NoNumber == 0

\* the sites and Site.tenant (NoTenant: the site has no tenant)
Sites == {"lax", "sac", "ucla", "lab"}

SiteTenant(site) ==
  CASE site = "lax" -> "Backbone"
    [] site = "sac" -> "Backbone"
    [] site = "ucla" -> "Customer"
    [] site = "lab" -> NoTenant

\* ASN.objects with the given objects, every other number free
Objects(f) == [n \in Numbers |-> IF n \in DOMAIN f THEN f[n] ELSE NoASN]

\* the databases the runs start from
AsnLayouts ==
  { [asns |-> Objects(<<>>), sites |-> {}],
    [asns |-> Objects(100 :> PUBLIC_RIR), sites |-> {<<100, "lax">>}],
    [asns |-> Objects(64512 :> PRIVATE_RIR), sites |-> {<<64512, "lax">>}],
    [asns |-> Objects(100 :> PUBLIC_RIR @@ 64512 :> PRIVATE_RIR), sites |-> {}],
    [asns |-> Objects(100 :> PUBLIC_RIR @@ 200 :> OTHER_RIR),
     sites |-> {<<100, "lax">>, <<100, "sac">>, <<200, "ucla">>}],
    [asns |-> Objects(64512 :> PRIVATE_RIR @@ 64513 :> PRIVATE_RIR @@ 200 :> PUBLIC_RIR),
     sites |-> {<<64512, "lax">>, <<64513, "ucla">>, <<200, "lab">>}] }

\* site.asns and asn.sites
site_asns(db, site) == {n \in Numbers : <<n, site>> \in db.sites}

asn_sites(db, n) == {site \in Sites : <<n, site>> \in db.sites}

\* isinstance(asn, ASN) for the value coerce_asn returns: the ASN object of
\* that number when there is one, else the number (or None) itself
coerce_asn(db, asn) == [obj |-> asn # NoNumber /\ db.asns[asn] # NoASN, asn |-> asn]

\* AssignASN.run.get_rir
get_rir(db, asn) ==
  IF asn.obj
    THEN IF db.asns[asn.asn] \in {PRIVATE_RIR, PUBLIC_RIR}
           THEN [err |-> "none", rir |-> db.asns[asn.asn]]
         ELSE [err |-> "ASN is already created in an unexpected RIR.", rir |-> NoASN]
  ELSE IF asn.asn # NoNumber
    THEN IF asn.asn \in PRIVATE_ASN_RANGE THEN [err |-> "none", rir |-> PRIVATE_RIR]
         ELSE [err |-> "none", rir |-> PUBLIC_RIR]
  ELSE [err |-> "none", rir |-> PRIVATE_RIR]

\* the least number of a non-empty set: querysets come ordered by number
First(S) == CHOOSE n \in S : \A m \in S : n <= m

\* a test_site_asns without the test for a site that holds a private ASN
M_test_site_asns(db, site, new_rir, new_asn) ==
  IF site_asns(db, site) = {} THEN "none"
  ELSE IF new_rir = PRIVATE_RIR
    THEN "Site already has ASN(s) assigned, cannot assign a new Private ASN."
  ELSE IF new_asn.obj /\ new_asn.asn \in site_asns(db, site)
    THEN "already assigned to this Site."
  ELSE "none"

\* AssignASN.run.test_site_asns: the message of the abort, or "none"
test_site_asns(db, site, new_rir, new_asn) ==
  IF site_asns(db, site) = {} THEN "none"
  ELSE IF new_rir = PRIVATE_RIR
    THEN "Site already has ASN(s) assigned, cannot assign a new Private ASN."
  ELSE LET same(n) == new_asn.obj /\ n = new_asn.asn
           private(n) == db.asns[n] = PRIVATE_RIR
           stops == {n \in site_asns(db, site) : same(n) \/ private(n)}
       IN IF stops = {} THEN "none"
          ELSE IF same(First(stops)) THEN "already assigned to this Site."
          ELSE "Site already has a Private ASN, cannot assign another ASN."

\* a check_other_assignment that compares no tenants
M_check_other_assignment(db, asn, new_site) ==
  IF ~asn.obj THEN "none"
  ELSE IF asn_sites(db, asn.asn) = {} THEN "UnboundLocalError"
  ELSE "none"

\* AssignASN.run.check_other_assignment: the message of the abort, the
\* exception raised, or "none".  site_names is bound only inside
\* `if asn.sites.exists()` and read after it; new_site.tenant.id is
\* evaluated for the first site of the loop.
check_other_assignment(db, asn, new_site) ==
  IF ~asn.obj THEN "none"
  ELSE IF asn_sites(db, asn.asn) = {} THEN "UnboundLocalError"
  ELSE IF SiteTenant(new_site) = NoTenant THEN "AttributeError"
  ELSE IF \E site \in asn_sites(db, asn.asn) : SiteTenant(site) # SiteTenant(new_site)
    THEN "Cannot assign the same ASN to members of two different segments."
  ELSE "none"

\* PRIVATE_ASN_RANGE.get_available_asns()
get_available_asns(db) == {n \in PRIVATE_ASN_RANGE : db.asns[n] = NoASN}

\* AssignASN.run.get_or_create_asn: the ASN, and ASN.objects with it
get_or_create_asn(db, rir, asn) ==
  IF asn.obj THEN [err |-> "none", asn |-> asn.asn, asns |-> db.asns]
  ELSE IF asn.asn # NoNumber
    THEN [err |-> "none", asn |-> asn.asn, asns |-> [db.asns EXCEPT ![asn.asn] = rir]]
  ELSE IF get_available_asns(db) = {}
    THEN [err |-> "No available ASNs found!", asn |-> NoNumber, asns |-> db.asns]
  ELSE LET next_asn == First(get_available_asns(db))
       IN [err |-> "none", asn |-> next_asn, asns |-> [db.asns EXCEPT ![next_asn] = PRIVATE_RIR]]

\* AssignASN.run: the exception that ends it ("none" if none), the ASN it
\* assigned and the database after it
assign_asn(db, site, number) ==
  LET new_asn == coerce_asn(db, number)
      r == get_rir(db, new_asn)
      failed(e) == [err |-> e, asn |-> NoNumber, asns |-> db.asns, sites |-> db.sites]
  IN IF r.err # "none" THEN failed(r.err)
     ELSE IF test_site_asns(db, site, r.rir, new_asn) # "none"
       THEN failed(test_site_asns(db, site, r.rir, new_asn))
     ELSE IF check_other_assignment(db, new_asn, site) # "none"
       THEN failed(check_other_assignment(db, new_asn, site))
     ELSE LET a == get_or_create_asn(db, r.rir, new_asn)
          IN IF a.err # "none" THEN failed(a.err)
             ELSE [err |-> "none", asn |-> a.asn, asns |-> a.asns,
                   sites |-> db.sites \cup {<<a.asn, site>>}]

InitASN ==
  /\ \E db \in AsnLayouts :
       asnrun = [pc |-> "idle", asns |-> db.asns, sites |-> db.sites, n |-> 0,
                 site |-> "lax", new_asn |-> NoNumber, err |-> "none", asn |-> NoNumber,
                 before |-> db]
  /\ ver = "jumpers"
  /\ cables = {}
  /\ pc = "idle"
  /\ rack_1_port = Ext
  /\ rack_2_port = Ext
  /\ connections = <<>>
  /\ err = "none"
  /\ queried = <<>>
  /\ snapshot = {}
  /\ created = <<>>
  /\ runs = NoRuns
  /\ trunks = <<>>
  /\ tagrun = NoTagRun
  /\ cobber = NoCobber

\* AssignASN.run for one form
RunAssignASN(site, number) ==
  /\ asnrun.pc # "none"
  /\ asnrun.n < MaxAsnRuns
  /\ LET out == assign_asn(asnrun, site, number)
     IN asnrun' = [pc |-> IF out.err = "none" THEN "done" ELSE "aborted",
                   asns |-> out.asns, sites |-> out.sites, n |-> asnrun.n + 1,
                   site |-> site, new_asn |-> number, err |-> out.err, asn |-> out.asn,
                   before |-> [asns |-> asnrun.asns, sites |-> asnrun.sites]]
  /\ UNCHANGED <<ver, cables, runner_vars, runs, trunks, tagrun, cobber>>

NextASN == \E site \in Sites, number \in Numbers \cup {NoNumber} : RunAssignASN(site, number)

SpecASN == InitASN /\ [][NextASN]_vars

\* ------------------------------------------------ the claims about AssignASN
\* the last run ended normally
AsnDone == asnrun.pc = "done"

\* the last run was given the number of an ASN object that existed
GivenExisting ==
  /\ asnrun.pc \in {"done", "aborted"}
  /\ asnrun.new_asn # NoNumber
  /\ asnrun.before.asns[asnrun.new_asn] # NoASN

\* no site holds a private ASN together with another ASN
NoPrivateWithAnother(db) ==
  \A site \in Sites : \A n \in site_asns(db, site) :
    db.asns[n] = PRIVATE_RIR => site_asns(db, site) = {n}

\* no ASN is held by two sites of different tenants
NoSharingAcrossTenants(db) ==
  \A n \in Numbers : \A s1 \in asn_sites(db, n) : \A s2 \in asn_sites(db, n) :
    SiteTenant(s1) = SiteTenant(s2)

\* C21: run after run, no site holds a private (RFC-6996) ASN together with
\* another ASN, a site that had ASNs is not given a private ASN, and a run
\* that ends normally assigned an ASN the site did not hold.
C21_SiteAsnRules ==
  /\ NoPrivateWithAnother(asnrun)
  /\ AsnDone /\ site_asns(asnrun.before, asnrun.site) # {} =>
       asnrun.asns[asnrun.asn] # PRIVATE_RIR
  /\ AsnDone => <<asnrun.asn, asnrun.site>> \notin asnrun.before.sites

\* a site that held a public ASN was given a second one
C21_Witness ==
  /\ AsnDone
  /\ site_asns(asnrun.before, asnrun.site) # {}
  /\ Cardinality(site_asns(asnrun, asnrun.site)) = 2

\* C22: no ASN is held by two sites of different tenants, and a run given an
\* existing ASN held by a site of another tenant than the selected site's
\* fails and leaves the ASNs and their assignments as they were.
C22_NoSharingAcrossTenants ==
  /\ NoSharingAcrossTenants(asnrun)
  /\ GivenExisting
       /\ (\E held \in asn_sites(asnrun.before, asnrun.new_asn) :
             SiteTenant(held) # SiteTenant(asnrun.site)) =>
         /\ asnrun.pc = "aborted"
         /\ asnrun.sites = asnrun.before.sites
         /\ asnrun.asns = asnrun.before.asns

\* the run was stopped by the tenant test itself
C22_Witness ==
  /\ GivenExisting
  /\ asnrun.err = "Cannot assign the same ASN to members of two different segments."

\* C29: a run given the number of an ASN object that no site holds (of one of
\* the two RIRs, for a site the site tests let pass) ends normally and
\* assigns that ASN to the selected site.
C29_UnassignedAsnIsAssigned ==
  /\ GivenExisting
  /\ asn_sites(asnrun.before, asnrun.new_asn) = {}
  /\ asnrun.before.asns[asnrun.new_asn] \in {PRIVATE_RIR, PUBLIC_RIR}
  /\ site_asns(asnrun.before, asnrun.site) = {}
  => AsnDone /\ <<asnrun.new_asn, asnrun.site>> \in asnrun.sites

\* =========================================================== CobberFreeForm
\* scripts/operations.py.  cobber = [pc, interface, reverse, path, i, out,
\* err]: the selected interface, the reverse flag, the cables of the
\* interface's CablePath in path order, the number of cables handled and
\* the freeforms logged so far.

\* a termination: an Interface, FrontPort or RearPort of a device, or a
\* CircuitTermination
Port(kind, device, name) == [kind |-> kind, device |-> device, name |-> name]

SelectedInterface == Port("Interface", "lax-agg10", "et-0/0/0")

FarInterface == Port("Interface", "sac-agg4", "et-0/0/1")

OtherInterface == Port("Interface", "sac-agg4", "et-0/0/2")

FarCircuit == Port("CircuitTermination", "circuit", "Z")

\* Cable: its two termination lists and its label
Cable(a_terminations, b_terminations, label) ==
  [a_terminations |-> a_terminations, b_terminations |-> b_terminations, label |-> label]

\* the cable between x and y, x stored on the A end or on the B end
Stored(x, y, label, x_on_a) == IF x_on_a THEN Cable(x, y, label) ELSE Cable(y, x, label)

\* the cable paths of the model, ends listed from the selected interface on:
\* a direct cable to an interface or to a circuit, a cable with two far
\* terminations, and three cables through two panels to an interface or to a
\* circuit
PathEnds ==
  { <<<< <<SelectedInterface>>, <<FarInterface>> >>>>,
    <<<< <<SelectedInterface>>, <<FarCircuit>> >>>>,
    <<<< <<SelectedInterface>>, <<FarInterface, OtherInterface>> >>>>,
    <<<< <<SelectedInterface>>, <<Port("FrontPort", "lax-pp1", "1")>> >>,
      << <<Port("RearPort", "lax-pp1", "A1")>>, <<Port("RearPort", "sac-pp1", "A1")>> >>,
      << <<Port("FrontPort", "sac-pp1", "1")>>, <<FarInterface>> >>>>,
    <<<< <<SelectedInterface>>, <<Port("FrontPort", "lax-pp1", "1")>> >>,
      << <<Port("RearPort", "lax-pp1", "A1")>>, <<Port("RearPort", "sac-pp1", "A1")>> >>,
      << <<Port("FrontPort", "sac-pp1", "1")>>, <<FarCircuit>> >>>> }

\* the cables of a path, each stored one way or the other
CablePaths ==
  UNION {{[i \in DOMAIN ends |-> Stored(ends[i][1], ends[i][2], <<"C">> \o str(i), near_on_a[i])] :
            near_on_a \in [DOMAIN ends -> BOOLEAN]} : ends \in PathEnds}

\* list.reverse()
Reverse(l) == [i \in DOMAIN l |-> l[Len(l) + 1 - i]]

\* CobberFreeForm.run.get_cables_list
get_cables_list(path, reverse) == IF reverse THEN Reverse(path) ELSE path

\* isinstance(cable.a_terminations, Interface): the argument is the list of
\* terminations, never an Interface
a_terminations_is_interface(cable) == FALSE

\* CobberFreeForm.run.get_ports_list
get_ports_list(cable, reverse, start) ==
  IF Len(cable.a_terminations) # 1 \/ Len(cable.b_terminations) # 1
    THEN [err |-> "AssertionError", ports |-> <<>>]
  ELSE LET l0 == <<cable.a_terminations[1], cable.b_terminations[1]>>
           l1 == IF cable.a_terminations[1].kind = "CircuitTermination" THEN Reverse(l0) ELSE l0
           l2 == IF start = 0 /\ ~a_terminations_is_interface(cable) THEN Reverse(l1) ELSE l1
           l3 == IF reverse THEN Reverse(l2) ELSE l2
       IN [err |-> "none", ports |-> l3]

\* make_port and make_circuitterm: the fields of one side of the freeform
make_port(port, side) == <<side, "Device", port.device, "Port", port.name>>

make_circuitterm(port, side) == <<side, "Device", "NOT CENIC MANAGED", "Port", "NOT CENIC MANAGED">>

\* add_label: port.cable.label, and the circuit id for a CircuitTermination
add_label(cable, port) ==
  <<"Cable Label">> \o cable.label
    \o (IF port.kind = "CircuitTermination" THEN <<"Cross Connect ID", port.device>> ELSE <<>>)

\* the freeform of one cable
cable_output(cable, ports_list) ==
  LET side(j) == IF j = 1 THEN "A" ELSE "Z"
      text(j) == IF ports_list[j].kind = "CircuitTermination"
                   THEN make_circuitterm(ports_list[j], side(j))
                 ELSE make_port(ports_list[j], side(j))
  IN text(1) \o add_label(cable, ports_list[1]) \o text(2)

InitCobber ==
  /\ \E path \in CablePaths, reverse \in BOOLEAN :
       cobber = [pc |-> "loop", interface |-> SelectedInterface, reverse |-> reverse,
                 path |-> path, i |-> 0, ports |-> <<>>, out |-> <<>>, err |-> "none"]
  /\ ver = "jumpers"
  /\ cables = {}
  /\ pc = "idle"
  /\ rack_1_port = Ext
  /\ rack_2_port = Ext
  /\ connections = <<>>
  /\ err = "none"
  /\ queried = <<>>
  /\ snapshot = {}
  /\ created = <<>>
  /\ runs = NoRuns
  /\ trunks = <<>>
  /\ tagrun = NoTagRun
  /\ asnrun = NoAsnRun

\* CobberFreeForm.run: one turn of the loop over the cables, up to its
\* log_success
CobberCable ==
  /\ cobber.pc = "loop"
  /\ LET cable_list == get_cables_list(cobber.path, cobber.reverse)
         cable == cable_list[cobber.i + 1]
         r == get_ports_list(cable, cobber.reverse, cobber.i)
     IN IF r.err # "none"
          THEN cobber' = [cobber EXCEPT !.pc = "aborted", !.err = r.err]
        ELSE cobber' = [cobber EXCEPT
                          !.i = cobber.i + 1,
                          !.ports = Append(cobber.ports, r.ports),
                          !.out = Append(cobber.out, cable_output(cable, r.ports)),
                          !.pc = IF cobber.i + 1 = Len(cable_list) THEN "done" ELSE "loop"]
  /\ UNCHANGED <<ver, cables, runner_vars, runs, trunks, tagrun, asnrun>>

NextCobber == CobberCable

SpecCobber == InitCobber /\ [][NextCobber]_vars

\* ------------------------------------------------ the claim about CobberFreeForm
\* C23: with reverse off, the port list of the first cable of the path starts
\* with the selected Interface, so the A side printed for that cable is the
\* selected Interface whichever end of the cable it is stored on.
C23_FirstCableStartsAtInterface ==
  ~cobber.reverse /\ cobber.pc \in {"loop", "done"} /\ cobber.i >= 1 =>
    /\ cobber.ports[1][1] = cobber.interface
    /\ SubSeq(cobber.out[1], 1, Len(make_port(cobber.interface, "A")))
         = make_port(cobber.interface, "A")

====
